---- MODULE Spec2Model ----
(***************************************************************************)
(* fileio-mcp: the structured file-editing engine (operations/edit_file.rs) *)
(* and the atomic writer it persists through (operations/write_file.rs).    *)
(*                                                                          *)
(* Text is a sequence of one-character strings; all characters of the       *)
(* model are ASCII, so a byte offset of the Rust String is an index into    *)
(* the sequence.  Offsets are 0-based and spans half-open, as in the code.  *)
(***************************************************************************)
EXTENDS Integers, Sequences, FiniteSets, TLC

(***************************************************************************)
(* Bounds of the model.                                                     *)
(***************************************************************************)
\* Longest initial file content of a request with an edit list.
MaxLen == 2
\* Longest initial file content of a request with a single operation.
MaxOpLen == 3
\* Longest edit list of a request.
MaxEdits == 2
\* Largest occurrence ordinal of an anchor operation.
MaxOcc == 2
\* Largest line number of a line operation.
MaxLine == 4

NL == "\n"
Chars == {"a", "b", NL}

\* Sequences over S of length 0..n.
SeqsUpTo(S, n) == UNION {[1..k -> S] : k \in 0..n}

SetMin(S) == CHOOSE m \in S : \A o \in S : m <= o
SetMax(S) == CHOOSE m \in S : \A o \in S : m >= o

(***************************************************************************)
(* String primitives of the Rust standard library.                          *)
(***************************************************************************)
\* &s[i..j]
Slice(s, i, j) == SubSeq(s, i + 1, j)

\* s.ends_with(c)
EndsWith(s, c) == Len(s) > 0 /\ s[Len(s)] = c

\* s[from..].find(needle), as an absolute offset; -1 for None.
StrFind(s, from, needle) ==
    LET hits == {p \in from..(Len(s) - Len(needle)) :
                     Slice(s, p, p + Len(needle)) = needle}
    IN IF hits = {} THEN -1 ELSE SetMin(hits)

\* s.insert_str(at, text)
InsertStr(s, at, text) == Slice(s, 0, at) \o text \o Slice(s, at, Len(s))

\* s.replace_range(i..j, text)
ReplaceRange(s, i, j, text) == Slice(s, 0, i) \o text \o Slice(s, j, Len(s))

(***************************************************************************)
(* Errors (error.rs).  An error is its kind and its message; the message is *)
(* the format string's fixed part followed by the interpolated text.        *)
(***************************************************************************)
FileIoError(kind, fixed, arg) == [kind |-> kind, msg |-> <<fixed>> \o arg]

NoError == [kind |-> "none", msg |-> <<>>]

\* FileIoError::from_io_error: the error kind reported for an io::ErrorKind.
from_io_error(operation, io_kind) ==
    CASE io_kind = "NotFound"         -> FileIoError("NotFound", operation, <<>>)
      [] io_kind = "PermissionDenied" -> FileIoError("PermissionDenied", operation, <<>>)
      [] io_kind = "AlreadyExists"    -> FileIoError("WriteError", operation, <<>>)
      [] io_kind = "InvalidInput"     -> FileIoError("InvalidPath", operation, <<>>)
      [] OTHER                        -> FileIoError("WriteError", operation, <<>>)

(***************************************************************************)
(* The regex crate, for patterns that are a concatenation of atoms c or c*  *)
(* (c a literal character).  "(" opens a group that nothing closes, and a   *)
(* leading "*" repeats nothing: both fail to compile.                       *)
(***************************************************************************)
Star == "*"
Paren == "("

\* regex::Regex::new(needle).is_ok()
RegexCompiles(needle) ==
    /\ \A i \in 1..Len(needle) : needle[i] # Paren
    /\ \A i \in 1..Len(needle) :
           needle[i] = Star => (i > 1 /\ needle[i - 1] # Star)

\* How many copies of character c the text s holds from offset p on.
RunLength(s, p, c) ==
    SetMax({k \in 0..(Len(s) - p) : \A j \in 1..k : s[p + j] = c})

\* End offset of the leftmost-first match of needle[i..] anchored at offset
\* p of s, or -1: a starred atom takes the longest run that lets the rest
\* match (greedy, backtracking), a plain atom takes one character.
RECURSIVE RegexMatchEnd(_, _, _, _)
RegexMatchEnd(needle, i, s, p) ==
    IF i > Len(needle) THEN p
    ELSE IF i < Len(needle) /\ needle[i + 1] = Star
    THEN IF \E k \in 0..RunLength(s, p, needle[i]) :
                RegexMatchEnd(needle, i + 2, s, p + k) # -1
         THEN RegexMatchEnd(needle, i + 2, s,
                  p + SetMax({k \in 0..RunLength(s, p, needle[i]) :
                                 RegexMatchEnd(needle, i + 2, s, p + k) # -1}))
         ELSE -1
    ELSE IF p < Len(s) /\ s[p + 1] = needle[i]
    THEN RegexMatchEnd(needle, i + 1, s, p + 1)
    ELSE -1

\* The offsets at or after from where a match of needle starts.
MatchStarts(needle, s, from) ==
    {p \in from..Len(s) : RegexMatchEnd(needle, 1, s, p) # -1}

\* The match that starts at offset p.
MatchFrom(needle, s, p) == <<p, RegexMatchEnd(needle, 1, s, p)>>

\* The first match starting at or after offset from: <<start, end>>, or <<>>.
RegexFindAt(needle, s, from) ==
    IF from > Len(s) \/ MatchStarts(needle, s, from) = {} THEN <<>>
    ELSE MatchFrom(needle, s, SetMin(MatchStarts(needle, s, from)))

\* Is m an empty match that ends where the previous match ended?
OverlappingEmpty(m, last_end) == m # <<>> /\ m[1] = m[2] /\ m[2] = last_end

\* One step of re.find_iter(s) at search position start, last_end the end
\* of the previous match (-1 before the first): an empty match that ends
\* where the previous match ended is dropped and the search repeated one
\* position further on.
FindIterNext(needle, s, start, last_end) ==
    IF OverlappingEmpty(RegexFindAt(needle, s, start), last_end)
    THEN RegexFindAt(needle, s, start + 1)
    ELSE RegexFindAt(needle, s, start)

\* re.find_iter(s): the successive non-overlapping matches; the search after
\* match m starts at its end.
RECURSIVE RegexFindIterFrom(_, _, _)
RegexFindIterFrom(needle, s, m) ==
    IF m = <<>> THEN <<>>
    ELSE <<m>> \o RegexFindIterFrom(needle, s, FindIterNext(needle, s, m[2], m[2]))

RegexFindIter(needle, s) ==
    RegexFindIterFrom(needle, s, FindIterNext(needle, s, 0, -1))

(***************************************************************************)
(* Span Resolver (edit_file.rs, find_nth_span).  A result is Err(e),        *)
(* Ok(None) or Ok(Some((start, end))).                                      *)
(***************************************************************************)
Err(e) == [tag |-> "Err", err |-> e, start |-> 0, end |-> 0]
None == [tag |-> "None", err |-> NoError, start |-> 0, end |-> 0]
Some(start, end) == [tag |-> "Some", err |-> NoError, start |-> start, end |-> end]

\* Faulty variant: the span found is returned end first.
RECURSIVE LiteralStepReversed(_, _, _, _, _)
LiteralStepReversed(haystack, needle, occurrence, abs, i) ==
    IF abs = -1 THEN None
    ELSE IF i + 1 = occurrence THEN Some(abs + Len(needle), abs)
    ELSE IF abs + Len(needle) > Len(haystack) THEN None
    ELSE LiteralStepReversed(haystack, needle, occurrence,
                             StrFind(haystack, abs + Len(needle), needle), i + 1)

\* Faulty variant: resumes the search one character after the match found,
\* so that matches may overlap.
RECURSIVE LiteralStepOverlapping(_, _, _, _, _)
LiteralStepOverlapping(haystack, needle, occurrence, abs, i) ==
    IF abs = -1 THEN None
    ELSE IF i + 1 = occurrence THEN Some(abs, abs + Len(needle))
    ELSE IF abs + 1 > Len(haystack) THEN None
    ELSE LiteralStepOverlapping(haystack, needle, occurrence,
                                StrFind(haystack, abs + 1, needle), i + 1)

\* One pass of the literal branch's while-let loop, abs the offset found
\* (-1 for None) and i the matches counted before it.
RECURSIVE LiteralStep(_, _, _, _, _)
LiteralStep(haystack, needle, occurrence, abs, i) ==
    IF abs = -1 THEN None
    ELSE IF i + 1 = occurrence THEN Some(abs, abs + Len(needle))
    ELSE IF abs + Len(needle) > Len(haystack) THEN None
    ELSE LiteralStep(haystack, needle, occurrence,
                     StrFind(haystack, abs + Len(needle), needle), i + 1)

\* The literal branch: start_from = 0, i = 0.
LiteralBranch(haystack, needle, occurrence) ==
    LiteralStep(haystack, needle, occurrence, StrFind(haystack, 0, needle), 0)

\* The occurrence-th item of the matches ms, if there is one.
NthMatch(ms, occurrence) ==
    IF occurrence <= Len(ms)
    THEN Some(ms[occurrence][1], ms[occurrence][2])
    ELSE None

\* The regex branch: compile, then the occurrence-th item of find_iter.
RegexBranch(haystack, needle, occurrence) ==
    IF ~RegexCompiles(needle)
    THEN Err(FileIoError("RegexError", "Regex compilation error: ", needle))
    ELSE NthMatch(RegexFindIter(needle, haystack), occurrence)

\* Faulty variant: tests the search string before the occurrence.
find_nth_span_EmptyFirst(haystack, needle, use_regex, occurrence) ==
    IF needle = <<>>
    THEN Err(FileIoError("InvalidPath", "search must not be empty", <<>>))
    ELSE IF occurrence = 0
    THEN Err(FileIoError("InvalidLineNumbers", "occurrence must be >= 1", <<>>))
    ELSE IF use_regex
    THEN RegexBranch(haystack, needle, occurrence)
    ELSE LiteralBranch(haystack, needle, occurrence)

\* Faulty variant: rejects an empty search string in the literal branch only.
find_nth_span_EmptyLiteralOnly(haystack, needle, use_regex, occurrence) ==
    IF occurrence = 0
    THEN Err(FileIoError("InvalidLineNumbers", "occurrence must be >= 1", <<>>))
    ELSE IF use_regex
    THEN RegexBranch(haystack, needle, occurrence)
    ELSE IF needle = <<>>
    THEN Err(FileIoError("InvalidPath", "search must not be empty", <<>>))
    ELSE LiteralBranch(haystack, needle, occurrence)

find_nth_span(haystack, needle, use_regex, occurrence) ==
    IF occurrence = 0
    THEN Err(FileIoError("InvalidLineNumbers", "occurrence must be >= 1", <<>>))
    ELSE IF needle = <<>>
    THEN Err(FileIoError("InvalidPath", "search must not be empty", <<>>))
    ELSE IF use_regex
    THEN RegexBranch(haystack, needle, occurrence)
    ELSE LiteralBranch(haystack, needle, occurrence)

(***************************************************************************)
(* Line Index / offset math (edit_file.rs).  An offset result is Err(e) or  *)
(* Some(start, end); line_start_offset uses start alone.                    *)
(***************************************************************************)
\* The elements of a set of offsets in increasing order.
RECURSIVE Ascending(_)
Ascending(S) ==
    IF S = {} THEN <<>> ELSE <<SetMin(S)>> \o Ascending(S \ {SetMin(S)})

\* The offsets where a line starts: 0 and the offset after every newline.
compute_line_starts(content) ==
    Ascending({0} \cup {i \in 1..Len(content) : content[i] = NL})

\* Faulty variant: a newline at the end of the buffer starts no line.
effective_line_count_NoFinalEmpty(content) ==
    IF content = <<>> THEN 1
    ELSE IF content[Len(content)] = NL THEN Len(compute_line_starts(content)) - 1
    ELSE Len(compute_line_starts(content))

effective_line_count(content) ==
    IF content = <<>> THEN 1 ELSE Len(compute_line_starts(content))

InvalidLine(fixed) == Err(FileIoError("InvalidLineNumbers", fixed, <<>>))

\* Faulty variant: the line after the last one is not allowed.
line_start_offset_NoAppend(content, line, allow_past_end) ==
    LET count == effective_line_count(content)
        starts == compute_line_starts(content)
    IN IF line = 0 THEN InvalidLine("line must be >= 1")
       ELSE IF line > count
       THEN InvalidLine("Invalid line number (file has fewer lines)")
       ELSE IF content = <<>> THEN Some(0, 0)
       ELSE Some(starts[line], starts[line])

line_start_offset(content, line, allow_past_end) ==
    LET count == effective_line_count(content)
        starts == compute_line_starts(content)
    IN IF line = 0 THEN InvalidLine("line must be >= 1")
       ELSE IF allow_past_end /\ line > count + 1
       THEN InvalidLine("Invalid line number (file has fewer lines)")
       ELSE IF allow_past_end /\ line = count + 1
       THEN Some(Len(content), Len(content))
       ELSE IF ~allow_past_end /\ line > count
       THEN InvalidLine("Invalid line number (file has fewer lines)")
       ELSE IF content = <<>> THEN Some(0, 0)
       ELSE IF line - 1 < Len(starts) THEN Some(starts[line], starts[line])
       ELSE InvalidLine("Invalid line number (file has fewer lines)")

\* Faulty variant: the span stops before the newline of end_line.
line_range_offsets_NoNewline(content, start_line, end_line, allow_empty_file_as_one_line) ==
    LET starts == compute_line_starts(content)
        count == IF allow_empty_file_as_one_line
                 THEN effective_line_count(content)
                 ELSE IF content = <<>> THEN 0 ELSE Len(starts)
    IN IF start_line = 0 \/ end_line = 0
       THEN InvalidLine("line numbers must be >= 1")
       ELSE IF start_line > end_line
       THEN InvalidLine("start_line must be <= end_line")
       ELSE IF start_line > count \/ end_line > count
       THEN InvalidLine("Invalid line range (file has fewer lines)")
       ELSE IF content = <<>> THEN Some(0, 0)
       ELSE IF ~(start_line - 1 < Len(starts))
       THEN InvalidLine("Invalid start_line")
       ELSE Some(starts[start_line],
                 IF end_line < Len(starts) THEN starts[end_line + 1] - 1
                 ELSE Len(content))

\* Faulty variant: an end_line past the last line is clamped to it.
line_range_offsets_Clamped(content, start_line, end_line, allow_empty_file_as_one_line) ==
    LET starts == compute_line_starts(content)
        count == effective_line_count(content)
    IN IF start_line = 0 \/ end_line = 0
       THEN InvalidLine("line numbers must be >= 1")
       ELSE IF start_line > end_line
       THEN InvalidLine("start_line must be <= end_line")
       ELSE IF start_line > count
       THEN InvalidLine("Invalid line range (file has fewer lines)")
       ELSE IF content = <<>> THEN Some(0, 0)
       ELSE Some(starts[start_line],
                 IF end_line < Len(starts) THEN starts[end_line + 1]
                 ELSE Len(content))

line_range_offsets(content, start_line, end_line, allow_empty_file_as_one_line) ==
    LET starts == compute_line_starts(content)
        count == IF allow_empty_file_as_one_line
                 THEN effective_line_count(content)
                 ELSE IF content = <<>> THEN 0 ELSE Len(starts)
    IN IF start_line = 0 \/ end_line = 0
       THEN InvalidLine("line numbers must be >= 1")
       ELSE IF start_line > end_line
       THEN InvalidLine("start_line must be <= end_line")
       ELSE IF start_line > count \/ end_line > count
       THEN InvalidLine("Invalid line range (file has fewer lines)")
       ELSE IF content = <<>> THEN Some(0, 0)
       ELSE IF ~(start_line - 1 < Len(starts))
       THEN InvalidLine("Invalid start_line")
       ELSE Some(starts[start_line],
                 IF end_line < Len(starts) THEN starts[end_line + 1]
                 ELSE Len(content))

(***************************************************************************)
(* Edit Operation Executor: one iteration of the loop of edit_file.  The    *)
(* outcome is Failed(e) (the ? or the return Err), Continue (the `continue` *)
(* of an unmatched anchor that is not required) or Applied(buffer).         *)
(***************************************************************************)
AnchorKinds == {"insert_after", "insert_before", "replace", "delete"}

Failed(e, content) == [tag |-> "Failed", err |-> e, content |-> content]
Continue(content) == [tag |-> "Continue", err |-> NoError, content |-> content]
Applied(content) == [tag |-> "Applied", err |-> NoError, content |-> content]

\* The error of an anchor that is required and was not found.
PatternNotFound(edit) ==
    [kind |-> "InvalidPath",
     msg |-> <<"Edit failed: search pattern not found", edit.op>> \o edit.search]

\* Faulty variant: an unmatched anchor is skipped even when it is required.
UnmatchedSkips(content, edit) == Continue(content)

\* What an unmatched anchor does: fail if require_match, else continue.
Unmatched(content, edit) ==
    IF edit.require_match
    THEN Failed(PatternNotFound(edit), content)
    ELSE Continue(content)

\* Faulty variant: InsertAfter puts its text before the span.
AnchorMutateAtStart(content, edit, start, end) ==
    CASE edit.op = "insert_after"  -> InsertStr(content, start, edit.text)
      [] edit.op = "insert_before" -> InsertStr(content, start, edit.text)
      [] edit.op = "replace"       -> ReplaceRange(content, start, end, edit.text)
      [] edit.op = "delete"        -> ReplaceRange(content, start, end, <<>>)

\* The mutation of a matched anchor operation on span (start, end).
AnchorMutate(content, edit, start, end) ==
    CASE edit.op = "insert_after"  -> InsertStr(content, end, edit.text)
      [] edit.op = "insert_before" -> InsertStr(content, start, edit.text)
      [] edit.op = "replace"       -> ReplaceRange(content, start, end, edit.text)
      [] edit.op = "delete"        -> ReplaceRange(content, start, end, <<>>)

\* Faulty variant: the text is used as it is.
ReplacementVerbatim(removed, text) == text

\* Faulty variant: the replacement always ends with a newline.
ReplacementTerminated(removed, text) ==
    IF EndsWith(text, NL) THEN text ELSE text \o <<NL>>

\* The replacement text of ReplaceLines for the removed span.
Replacement(removed, text) ==
    IF EndsWith(removed, NL) /\ ~EndsWith(text, NL) THEN text \o <<NL>> ELSE text

\* An anchor operation, span the result of find_nth_span.
AnchorOutcome(content, edit, span) ==
    CASE span.tag = "Err"  -> Failed(span.err, content)
      [] span.tag = "None" -> Unmatched(content, edit)
      [] span.tag = "Some" ->
             Applied(AnchorMutate(content, edit, span.start, span.end))

ApplyAnchor(content, edit) ==
    AnchorOutcome(content, edit,
        find_nth_span(content, edit.search, edit.use_regex, edit.occurrence))

\* InsertAtLine, at the result of line_start_offset.
InsertAtLineOutcome(content, edit, at) ==
    IF at.tag = "Err" THEN Failed(at.err, content)
    ELSE Applied(InsertStr(content, at.start, edit.text))

ApplyInsertAtLine(content, edit) ==
    InsertAtLineOutcome(content, edit, line_start_offset(content, edit.line, TRUE))

\* ReplaceLines, off the result of line_range_offsets.
ReplaceLinesOutcome(content, edit, off) ==
    IF off.tag = "Err" THEN Failed(off.err, content)
    ELSE Applied(ReplaceRange(content, off.start, off.end,
                     Replacement(Slice(content, off.start, off.end), edit.text)))

ApplyReplaceLines(content, edit) ==
    ReplaceLinesOutcome(content, edit,
        line_range_offsets(content, edit.start_line, edit.end_line, TRUE))

\* Faulty variant: the last character of the span is left in the buffer.
DeleteLinesOutcomeShort(content, off) ==
    IF off.tag = "Err" THEN Failed(off.err, content)
    ELSE Applied(ReplaceRange(content, off.start,
                     IF off.end > off.start THEN off.end - 1 ELSE off.end, <<>>))

\* DeleteLines, off the result of line_range_offsets.
DeleteLinesOutcome(content, off) ==
    IF off.tag = "Err" THEN Failed(off.err, content)
    ELSE Applied(ReplaceRange(content, off.start, off.end, <<>>))

ApplyDeleteLines(content, edit) ==
    DeleteLinesOutcome(content,
        line_range_offsets(content, edit.start_line, edit.end_line, TRUE))

\* The match over the operation kinds.
ApplyEdit(content, edit) ==
    CASE edit.op \in AnchorKinds      -> ApplyAnchor(content, edit)
      [] edit.op = "insert_at_line"   -> ApplyInsertAtLine(content, edit)
      [] edit.op = "replace_lines"    -> ApplyReplaceLines(content, edit)
      [] edit.op = "delete_lines"     -> ApplyDeleteLines(content, edit)

\* Faulty variant: counts every operation that ran.
CountAppliedEveryOp(applied, before, after) == applied + 1

\* Faulty variant: counts the operations that left the buffer as it was.
CountAppliedInverted(applied, before, after) ==
    IF after = before THEN applied + 1 ELSE applied

\* applied after an iteration: one more if the buffer differs from `before`.
CountApplied(applied, before, after) ==
    IF after # before THEN applied + 1 ELSE applied

(***************************************************************************)
(* The file system seen by one call: the target path and its sibling        *)
(* "<path>.tmp".  A path is missing, a text file, a file that is not valid  *)
(* UTF-8, or a file the process may not read.                               *)
(***************************************************************************)
Missing == [kind |-> "missing", data |-> <<>>]
TextFile(data) == [kind |-> "text", data |-> data]
NonText == [kind |-> "nontext", data |-> <<>>]
Denied == [kind |-> "denied", data |-> <<>>]

\* path_obj.exists()
Exists(file) == file.kind # "missing"

\* fs::read_to_string(path): Ok(data) or the io::ErrorKind.
read_to_string(file) ==
    CASE file.kind = "text"    -> [ok |-> TRUE, io_kind |-> "none", data |-> file.data]
      [] file.kind = "missing" -> [ok |-> FALSE, io_kind |-> "NotFound", data |-> <<>>]
      [] file.kind = "denied"  ->
             [ok |-> FALSE, io_kind |-> "PermissionDenied", data |-> <<>>]
      [] file.kind = "nontext" ->
             [ok |-> FALSE, io_kind |-> "InvalidData", data |-> <<>>]

(***************************************************************************)
(* Results of edit_file.                                                    *)
(***************************************************************************)
OptNone == [some |-> FALSE, val |-> <<>>]
OptSome(v) == [some |-> TRUE, val |-> v]

Pending == [tag |-> "pending", err |-> NoError, changed |-> FALSE,
            applied_edits |-> 0, dry_run |-> FALSE, content |-> OptNone]

ResultErr(e) == [tag |-> "Err", err |-> e, changed |-> FALSE,
                 applied_edits |-> 0, dry_run |-> FALSE, content |-> OptNone]

\* Faulty variant: the content is returned only when it is asked for.
ResultContentOnRequest(r, buffer) ==
    IF r.return_content THEN OptSome(buffer) ELSE OptNone

\* The content field of the result.
ResultContent(r, buffer) ==
    IF r.return_content \/ r.dry_run THEN OptSome(buffer) ELSE OptNone

\* Ok(EditFileResult { .. })
EditFileResult(r, changed, applied_edits, buffer) ==
    [tag |-> "Ok", err |-> NoError, changed |-> changed,
     applied_edits |-> applied_edits, dry_run |-> r.dry_run,
     content |-> ResultContent(r, buffer)]

\* Faulty variant: persists a dry run too.
MustPersistDryRun(r, changed) == changed

\* Faulty variant: persists whether or not the content changed.
MustPersistUnchanged(r, changed) == ~r.dry_run

\* Faulty variant: a call that may create the file always persists.
MustPersistCreating(r, changed) == ~r.dry_run /\ (changed \/ r.create_if_missing)

\* The test that sends the call into write_file.
MustPersist(r, changed) == changed /\ ~r.dry_run

(***************************************************************************)
(* Inputs.                                                                  *)
(***************************************************************************)
Needles == {<<>>, <<"a">>, <<"a", "a">>, <<"a", Star>>, <<Paren>>}
Texts == {<<>>, <<"b">>, <<"a", NL>>}

InsertAfter(search, text, use_regex, occurrence, require_match) ==
    [op |-> "insert_after", search |-> search, text |-> text,
     use_regex |-> use_regex, occurrence |-> occurrence,
     require_match |-> require_match]
InsertBefore(search, text, use_regex, occurrence, require_match) ==
    [op |-> "insert_before", search |-> search, text |-> text,
     use_regex |-> use_regex, occurrence |-> occurrence,
     require_match |-> require_match]
Replace(search, text, use_regex, occurrence, require_match) ==
    [op |-> "replace", search |-> search, text |-> text,
     use_regex |-> use_regex, occurrence |-> occurrence,
     require_match |-> require_match]
Delete(search, use_regex, occurrence, require_match) ==
    [op |-> "delete", search |-> search,
     use_regex |-> use_regex, occurrence |-> occurrence,
     require_match |-> require_match]
InsertAtLine(line, text) == [op |-> "insert_at_line", line |-> line, text |-> text]
ReplaceLines(start_line, end_line, text) ==
    [op |-> "replace_lines", start_line |-> start_line, end_line |-> end_line,
     text |-> text]
DeleteLines(start_line, end_line) ==
    [op |-> "delete_lines", start_line |-> start_line, end_line |-> end_line]

\* Every operation over the needles, texts, occurrences and line numbers.
AnchorOps ==
    {InsertAfter(n, t, x, o, q) :
        n \in Needles, t \in Texts, x \in BOOLEAN, o \in 0..MaxOcc, q \in BOOLEAN}
    \cup {InsertBefore(n, t, x, o, q) :
        n \in Needles, t \in Texts, x \in BOOLEAN, o \in 0..MaxOcc, q \in BOOLEAN}
    \cup {Replace(n, t, x, o, q) :
        n \in Needles, t \in Texts, x \in BOOLEAN, o \in 0..MaxOcc, q \in BOOLEAN}
    \cup {Delete(n, x, o, q) :
        n \in Needles, x \in BOOLEAN, o \in 0..MaxOcc, q \in BOOLEAN}
LineOps ==
    {InsertAtLine(l, t) : l \in 0..MaxLine, t \in Texts}
    \cup {ReplaceLines(l, m, t) : l \in 0..MaxLine, m \in 0..MaxLine, t \in Texts}
    \cup {DeleteLines(l, m) : l \in 0..MaxLine, m \in 0..MaxLine}
AllOps == AnchorOps \cup LineOps

\* The operations edit lists are made of: every kind, every way to fail
\* (a required anchor that is missing, a line out of range, occurrence 0, an
\* empty search, a regex that does not compile), an anchor that need not
\* match, and a pair that undo one another.
CoreOps ==
    { InsertAfter(<<"a">>, <<"b">>, FALSE, 1, TRUE),
      Replace(<<"b">>, <<"a">>, FALSE, 2, FALSE),
      Delete(<<"a", Star>>, TRUE, 1, TRUE),
      InsertBefore(<<>>, <<"b">>, FALSE, 1, TRUE),
      Replace(<<Paren>>, <<"b">>, TRUE, 1, TRUE),
      Delete(<<"a">>, FALSE, 0, TRUE),
      InsertAtLine(1, <<"a", NL>>),
      ReplaceLines(2, 2, <<"b">>),
      DeleteLines(1, 1) }

Request(edits, create_if_missing, dry_run, return_content) ==
    [edits |-> edits, create_if_missing |-> create_if_missing,
     dry_run |-> dry_run, return_content |-> return_content]

\* Requests with an edit list of up to MaxEdits operations.
ListRequests ==
    {Request(e, c, d, r) :
        e \in SeqsUpTo(CoreOps, MaxEdits), c \in BOOLEAN, d \in BOOLEAN,
        r \in BOOLEAN}

\* Requests with exactly one operation, any operation.
OpRequests == {Request(<<e>>, FALSE, FALSE, TRUE) : e \in AllOps}

\* Requests that insert a text, a line with its newline or one without, at
\* a line and then delete a line.
PairRequests ==
    {Request(<<InsertAtLine(k, t), DeleteLines(m, m)>>, c, FALSE, TRUE) :
        k \in 0..MaxLine, m \in 0..MaxLine,
        t \in {<<NL>>, <<"a", NL>>, <<"b", NL>>, <<"b">>}, c \in BOOLEAN}

\* The files a call may find: text over chars of up to n characters, or none.
Files(chars, n) ==
    {Missing, NonText, Denied} \cup {TextFile(c) : c \in SeqsUpTo(chars, n)}

(***************************************************************************)
(* State.                                                                   *)
(***************************************************************************)
VARIABLES
    disk,              \* the file at the target path
    temp,              \* the file at "<path>.tmp"
    req,               \* the EditFileRequest of the call
    pc,                \* where the call is: load, loop, write_temp, rename, done
    original_content,  \* edit_file's original_content
    content,           \* edit_file's content, the buffer
    applied,           \* edit_file's applied
    idx,               \* how many operations of req.edits the loop has consumed
    before,            \* the loop's `before`, the buffer ahead of the last operation
    result,            \* what edit_file returned
    disk0,             \* the file at the target path when the call began
    target_writes,     \* how many times the target path was written
    dir,               \* concurrent calls: the directory, path -> inode or 0
    inodes,            \* concurrent calls: the content of each inode
    calls,             \* concurrent calls: the state of each call
    renames,           \* concurrent calls: the calls in the order they renamed
    files0,            \* concurrent calls: the files when the calls began
    initialized,       \* the server: McpServer's initialized flag
    executed,          \* the server: did the last message call a tool?
    since              \* the server: the last of start, an initialized message
                       \* and a successful shutdown, before and after the
                       \* last message

\* The variables of a call that has the file system to itself.
seqVars == <<disk, temp, req, pc, original_content, content, applied, idx,
             before, result, disk0, target_writes>>

\* The variables of the concurrent calls.
concVars == <<dir, inodes, calls, renames, files0>>

\* The variables of the JSON-RPC server.
rpcVars == <<initialized, executed, since>>

vars == <<disk, temp, req, pc, original_content, content, applied, idx, before,
          result, disk0, target_writes, dir, inodes, calls, renames, files0,
          initialized, executed, since>>

\* No concurrent calls: one call has the file system to itself.
NoCalls ==
    /\ dir = <<>>
    /\ inodes = <<>>
    /\ calls = <<>>
    /\ renames = <<>>
    /\ files0 = <<>>

\* McpServer::new(), before any message.
NoSession ==
    /\ initialized = FALSE
    /\ executed = FALSE
    /\ since = [was |-> "start", is |-> "start"]

InitWith(files, requests) ==
    /\ disk \in files
    /\ temp = Missing
    /\ req \in requests
    /\ pc = "load"
    /\ original_content = <<>>
    /\ content = <<>>
    /\ applied = 0
    /\ idx = 0
    /\ before = <<>>
    /\ result = Pending
    /\ disk0 = disk
    /\ target_writes = 0
    /\ NoCalls
    /\ NoSession

Init == InitWith(Files({"a", NL}, MaxLen), ListRequests)

InitOp == InitWith(Files(Chars, MaxOpLen), OpRequests)

InitPair == InitWith(Files(Chars, MaxOpLen), PairRequests)

\* edit_file returns r.
Return(r) ==
    /\ result' = r
    /\ pc' = "done"

(***************************************************************************)
(* edit_file, lines 115-132: load the file, or start from nothing.          *)
(***************************************************************************)
\* Faulty variant: a missing file is an empty one, whatever the request says.
LoadOutcomeAlwaysCreate(file, r) ==
    LET rd == read_to_string(file)
    IN IF rd.ok
       THEN [ok |-> TRUE, err |-> NoError, data |-> rd.data]
       ELSE IF rd.io_kind = "NotFound"
       THEN [ok |-> TRUE, err |-> NoError, data |-> <<>>]
       ELSE [ok |-> FALSE, err |-> from_io_error("read file", rd.io_kind),
             data |-> <<>>]

\* What the load yields: Err(e), or Ok with the original content.
LoadOutcome(file, r) ==
    LET rd == read_to_string(file)
    IN IF rd.ok
       THEN IF ~r.create_if_missing /\ ~Exists(file)
            THEN [ok |-> FALSE, err |-> FileIoError("NotFound", "File not found", <<>>),
                  data |-> <<>>]
            ELSE [ok |-> TRUE, err |-> NoError, data |-> rd.data]
       ELSE IF rd.io_kind = "NotFound" /\ r.create_if_missing
       THEN [ok |-> TRUE, err |-> NoError, data |-> <<>>]
       ELSE [ok |-> FALSE, err |-> from_io_error("read file", rd.io_kind),
             data |-> <<>>]

\* The load with outcome lo.
LoadWith(lo) ==
    IF lo.ok
    THEN /\ original_content' = lo.data
         /\ content' = lo.data
         /\ before' = lo.data
         /\ pc' = "loop"
         /\ UNCHANGED result
    ELSE /\ Return(ResultErr(lo.err))
         /\ UNCHANGED <<original_content, content, before>>

Load ==
    /\ pc = "load"
    /\ LoadWith(LoadOutcome(disk, req))
    /\ UNCHANGED <<disk, temp, req, applied, idx, disk0, target_writes>>
    /\ UNCHANGED <<concVars, rpcVars>>

(***************************************************************************)
(* edit_file, lines 134-251: one iteration of the loop over req.edits.      *)
(***************************************************************************)
\* Faulty variant: takes the operations from the end of the list.
NextEditFromEnd(edits, taken) == edits[Len(edits) - taken]

\* `for edit in req.edits`: the operation the loop takes after `taken` of them.
NextEdit(edits, taken) == edits[taken + 1]

\* The loop body's effect on (content, applied) for the outcome out of the
\* match: a failure leaves the function, `continue` skips the count.
BodyOutcome(buffer, count, out) ==
    [failed |-> out.tag = "Failed",
     err |-> out.err,
     content |-> out.content,
     applied |-> IF out.tag = "Applied"
                 THEN CountApplied(count, buffer, out.content)
                 ELSE count]

\* Faulty variant: an operation that fails is skipped and the loop goes on.
LoopBodySwallow(buffer, count, edit) ==
    [failed |-> FALSE, err |-> NoError,
     content |-> ApplyEdit(buffer, edit).content, applied |-> count]

\* The loop body on buffer and applied count, for the operation edit.
LoopBody(buffer, count, edit) ==
    BodyOutcome(buffer, count, ApplyEdit(buffer, edit))

\* The iteration whose body yields step.
IterateWith(step) ==
    /\ idx' = idx + 1
    /\ before' = content
    /\ IF step.failed
       THEN /\ Return(ResultErr(step.err))
            /\ UNCHANGED <<content, applied>>
       ELSE /\ content' = step.content
            /\ applied' = step.applied
            /\ UNCHANGED <<pc, result>>

Iterate ==
    /\ pc = "loop"
    /\ idx < Len(req.edits)
    /\ IterateWith(LoopBody(content, applied, NextEdit(req.edits, idx)))
    /\ UNCHANGED <<disk, temp, req, original_content, disk0, target_writes>>
    /\ UNCHANGED <<concVars, rpcVars>>

(***************************************************************************)
(* edit_file, lines 253-270: after the loop.                                *)
(***************************************************************************)
Changed(buffer, original) == buffer # original

Finish ==
    /\ pc = "loop"
    /\ idx = Len(req.edits)
    /\ LET changed == Changed(content, original_content)
       IN IF MustPersist(req, changed)
          THEN /\ pc' = "write_temp"
               /\ UNCHANGED result
          ELSE Return(EditFileResult(req, changed, applied, content))
    /\ UNCHANGED <<disk, temp, req, original_content, content, applied, idx,
                   before, disk0, target_writes>>
    /\ UNCHANGED <<concVars, rpcVars>>

(***************************************************************************)
(* write_file(path, content, false), lines 16-24 and 41-58.                 *)
(***************************************************************************)
IoKinds == {"PermissionDenied", "Other"}

\* fs::write(temp_path, content) succeeds.
WriteTemp ==
    /\ pc = "write_temp"
    /\ temp' = TextFile(content)
    /\ pc' = "rename"
    /\ UNCHANGED <<disk, req, original_content, content, applied, idx, before,
                   result, disk0, target_writes>>
    /\ UNCHANGED <<concVars, rpcVars>>

\* create_dir_all or fs::write fails: the temp file is as it was, or holds
\* the part of the content written before the failure.
WriteTempFails ==
    /\ pc = "write_temp"
    /\ \E io \in IoKinds, n \in 0..Len(content) :
          /\ temp' \in {temp, TextFile(Slice(content, 0, n))}
          /\ Return(ResultErr(from_io_error("write to temp file", io)))
    /\ UNCHANGED <<disk, req, original_content, content, applied, idx, before,
                   disk0, target_writes>>
    /\ UNCHANGED <<concVars, rpcVars>>

\* fs::rename(temp_path, path) succeeds, and edit_file returns its result.
Rename ==
    /\ pc = "rename"
    /\ disk' = temp
    /\ temp' = Missing
    /\ target_writes' = target_writes + 1
    /\ Return(EditFileResult(req, Changed(content, original_content), applied, content))
    /\ UNCHANGED <<req, original_content, content, applied, idx, before, disk0>>
    /\ UNCHANGED <<concVars, rpcVars>>

\* The error write_file reports when the rename fails.
RenameError(io) ==
    IF io = "PermissionDenied"
    THEN FileIoError("PermissionDenied", "Permission denied when writing file", <<>>)
    ELSE from_io_error("rename temp file", io)

RenameFails ==
    /\ pc = "rename"
    /\ \E io \in IoKinds : Return(ResultErr(RenameError(io)))
    /\ UNCHANGED <<disk, temp, req, original_content, content, applied, idx,
                   before, disk0, target_writes>>
    /\ UNCHANGED <<concVars, rpcVars>>

Next ==
    \/ Load
    \/ Iterate
    \/ Finish
    \/ WriteTemp
    \/ WriteTempFails
    \/ Rename
    \/ RenameFails

Spec == Init /\ [][Next]_vars

SpecOp == InitOp /\ [][Next]_vars

SpecPair == InitPair /\ [][Next]_vars

(***************************************************************************)
(* read_lines, src/operations/read_lines.rs.  usize and u64 are modelled    *)
(* UsizeBits wide.  An addition that overflows panics in a build with       *)
(* overflow checks and wraps in one without.                                *)
(***************************************************************************)
UsizeBits == 3
UsizeMax == 2 ^ UsizeBits - 1

\* a + b in usize without overflow checks.
WrappingAdd(a, b) == (a + b) % (UsizeMax + 1)

\* The rest of BufRead::lines, nl the offset of the first newline or -1.
RECURSIVE BufLinesAt(_, _)
BufLinesAt(data, nl) ==
    IF data = <<>> THEN <<>>
    ELSE IF nl = -1 THEN <<data>>
    ELSE <<Slice(data, 0, nl)>>
         \o BufLinesAt(Slice(data, nl + 1, Len(data)),
                       StrFind(Slice(data, nl + 1, Len(data)), 0, <<NL>>))

\* reader.lines().collect(): the lines of data without their newlines.
BufLines(data) == BufLinesAt(data, StrFind(data, 0, <<NL>>))

\* Results of read_lines.
ReadOk(lines) == [tag |-> "Ok", err |-> NoError, lines |-> lines]
ReadErr(e) == [tag |-> "Err", err |-> e, lines |-> <<>>]
ReadPanic == [tag |-> "Panic", err |-> NoError, lines |-> <<>>]

\* A window bound: a number, an error or a panic.
Num(v) == [tag |-> "Ok", val |-> v, err |-> NoError]
NumErr(fixed) ==
    [tag |-> "Err", val |-> 0, err |-> FileIoError("InvalidLineNumbers", fixed, <<>>)]
NumPanic == [tag |-> "Panic", val |-> 0, err |-> NoError]

\* Option::unwrap_or
UnwrapOr(opt, default) == IF opt.some THEN opt.val ELSE default

\* read_lines, lines 35-47: the 0-based start of the window.
WindowStart(start_line, start_offset) ==
    IF start_line.some
    THEN IF start_line.val = 0 THEN NumErr("Line numbers start at 1")
         ELSE Num(start_line.val - 1)
    ELSE IF start_offset.some THEN Num(start_offset.val)
    ELSE Num(0)

\* read_lines, line 64: start + count as usize.
CountedEnd(start, count, checked) ==
    IF start + count > UsizeMax
    THEN IF checked THEN NumPanic ELSE Num(WrappingAdd(start, count))
    ELSE Num(start + count)

\* read_lines, lines 49-67: the exclusive end of the window, len the number
\* of lines read.
WindowEnd(start, start_line, end_line, line_count, len, checked) ==
    IF end_line.some
    THEN IF end_line.val = 0 THEN NumErr("Line numbers start at 1")
         ELSE IF end_line.val < UnwrapOr(start_line, 1)
         THEN NumErr("end_line must be >= start_line")
         ELSE Num(end_line.val)
    ELSE IF line_count.some THEN CountedEnd(start, line_count.val, checked)
    ELSE Num(len)

\* end.min(lines.len())
MinOf(a, b) == IF a < b THEN a ELSE b

\* read_lines, lines 69-88: validate, clamp the end, slice.
Window(lines, start, end) ==
    IF start > Len(lines)
    THEN ReadErr(FileIoError("InvalidLineNumbers", "start_line exceeds file length", <<>>))
    ELSE IF start > MinOf(end, Len(lines))
    THEN ReadErr(FileIoError("InvalidLineNumbers", "start_line must be <= end_line", <<>>))
    ELSE ReadOk(SubSeq(lines, start + 1, MinOf(end, Len(lines))))

\* The window for the bounds start and end, either of which may have failed.
WindowOf(lines, start, end) ==
    IF start.tag = "Err" THEN ReadErr(start.err)
    ELSE IF end.tag = "Err" THEN ReadErr(end.err)
    ELSE IF end.tag = "Panic" THEN ReadPanic
    ELSE Window(lines, start.val, end.val)

\* The window of the lines read, start the result of WindowStart.
ReadWindow(lines, r, start, checked) ==
    WindowOf(lines, start,
             WindowEnd(start.val, r.start_line, r.end_line, r.line_count,
                       Len(lines), checked))

\* read_lines(path, start_line, end_line, line_count, start_offset) on the
\* file at path, in a build with (checked) or without overflow checks.
read_lines(file, r, checked) ==
    CASE file.kind = "missing" -> ReadErr(from_io_error("open file", "NotFound"))
      [] file.kind = "denied"  -> ReadErr(from_io_error("open file", "PermissionDenied"))
      [] file.kind = "nontext" ->
             ReadErr(FileIoError("ReadError", "Failed to read line", <<>>))
      [] file.kind = "text"    ->
             ReadWindow(BufLines(file.data), r,
                        WindowStart(r.start_line, r.start_offset), checked)

\* The arguments of read_lines.
ReadLinesRequest(start_line, end_line, line_count, start_offset) ==
    [start_line |-> start_line, end_line |-> end_line,
     line_count |-> line_count, start_offset |-> start_offset]

\* Optional numbers: absent, a small one, or the largest there is.
OptNumbers == {OptNone} \cup {OptSome(n) : n \in (0..MaxLine) \cup {UsizeMax}}

ReadRequests ==
    {ReadLinesRequest(s, e, c, o) :
        s \in OptNumbers, e \in OptNumbers, c \in OptNumbers, o \in OptNumbers}

InitRead ==
    /\ disk \in Files({"a", NL}, MaxOpLen)
    /\ temp = Missing
    /\ req \in ReadRequests
    /\ pc = "read"
    /\ original_content = <<>>
    /\ content = <<>>
    /\ applied = 0
    /\ idx = 0
    /\ before = <<>>
    /\ result = Pending
    /\ disk0 = disk
    /\ target_writes = 0
    /\ NoCalls
    /\ NoSession

\* read_lines returns.
ReadLines ==
    /\ pc = "read"
    /\ \E checked \in BOOLEAN :
          /\ read_lines(disk, req, checked).tag # "Panic"
          /\ result' = read_lines(disk, req, checked)
    /\ pc' = "done"
    /\ UNCHANGED <<disk, temp, req, original_content, content, applied, idx,
                   before, disk0, target_writes>>
    /\ UNCHANGED <<concVars, rpcVars>>

\* read_lines panics: `attempt to add with overflow`.
ReadLinesPanics ==
    /\ pc = "read"
    /\ read_lines(disk, req, TRUE).tag = "Panic"
    /\ result' = ReadPanic
    /\ pc' = "done"
    /\ UNCHANGED <<disk, temp, req, original_content, content, applied, idx,
                   before, disk0, target_writes>>
    /\ UNCHANGED <<concVars, rpcVars>>

NextRead ==
    \/ ReadLines
    \/ ReadLinesPanics

SpecRead == InitRead /\ [][NextRead]_vars

(***************************************************************************)
(* Concurrent calls of edit_file.  Each call has its own request and        *)
(* buffer; the calls share the directory and the files.  A path names an    *)
(* inode; File::create truncates the inode its path names, or makes one; a  *)
(* write goes through the descriptor to the inode that was opened, whatever *)
(* names it by then; rename moves the inode of the temp path to the target. *)
(***************************************************************************)
Calls == {1, 2}

\* write_file.rs line 42: format!("{}.tmp", expanded_path)
temp_path(path) == path \o <<"tmp">>

\* The paths calls are made on, in inode order.
PathList == << <<"f">>, <<"f", "tmp">>, <<"g">> >>
TargetPaths == {PathList[i] : i \in 1..Len(PathList)}
ConcPaths == TargetPaths \cup {temp_path(p) : p \in TargetPaths}
PathIndex(p) == CHOOSE i \in 1..Len(PathList) : PathList[i] = p

\* What the files hold when the calls begin.
InitialFiles == {Missing, TextFile(<<"a">>), TextFile(<<"b">>)}

\* The requests of the calls: one that always changes the content, one that
\* changes it if it holds an "a", one that deletes the first line.
ConcRequests ==
    { Request(<<InsertAtLine(1, <<"b">>)>>, TRUE, FALSE, FALSE),
      Request(<<Replace(<<"a">>, <<"b">>, FALSE, 1, FALSE)>>, FALSE, FALSE, FALSE),
      Request(<<DeleteLines(1, 1)>>, FALSE, FALSE, TRUE) }

\* A call that has not begun.
NewCall(path, r) ==
    [path |-> path, req |-> r, pc |-> "load", original |-> <<>>,
     content |-> <<>>, applied |-> 0, fd |-> 0, off |-> 0, result |-> Pending]

\* The file a path names.
Visible(d, ino, path) == IF d[path] = 0 THEN Missing ELSE TextFile(ino[d[path]])

\* The byte a hole in a file reads as.
NUL == "0"

\* data, extended with NULs to at least n bytes.
PadTo(data, n) ==
    IF Len(data) >= n THEN data ELSE data \o [i \in 1..(n - Len(data)) |-> NUL]

\* write(fd, chunk) at offset off of a file that holds data.
WriteAt(data, off, chunk) ==
    Slice(PadTo(data, off), 0, off) \o chunk
    \o Slice(data, off + Len(chunk), Len(data))

\* The loop of edit_file, lines 134-251, from operation taken + 1 on.
RECURSIVE RunEdits(_, _, _, _)
RECURSIVE RunEditsAfter(_, _, _)
RunEdits(edits, buffer, count, taken) ==
    IF taken = Len(edits)
    THEN [failed |-> FALSE, err |-> NoError, content |-> buffer, applied |-> count]
    ELSE RunEditsAfter(edits, taken,
                       LoopBody(buffer, count, NextEdit(edits, taken)))

RunEditsAfter(edits, taken, step) ==
    IF step.failed THEN step
    ELSE RunEdits(edits, step.content, step.applied, taken + 1)

InitConc ==
    /\ files0 \in [TargetPaths -> InitialFiles]
    /\ dir = [p \in ConcPaths |->
                 IF p \in TargetPaths /\ Exists(files0[p]) THEN PathIndex(p) ELSE 0]
    /\ inodes = [i \in 1..Len(PathList) |-> files0[PathList[i]].data]
    /\ calls \in [Calls -> {NewCall(p, r) : p \in TargetPaths, r \in ConcRequests}]
    /\ renames = <<>>
    /\ NoSession
    /\ disk = Missing
    /\ temp = Missing
    /\ req = Request(<<>>, FALSE, FALSE, FALSE)
    /\ pc = "calls"
    /\ original_content = <<>>
    /\ content = <<>>
    /\ applied = 0
    /\ idx = 0
    /\ before = <<>>
    /\ result = Pending
    /\ disk0 = Missing
    /\ target_writes = 0

\* Call c becomes call.
SetCall(c, call) == calls' = [calls EXCEPT ![c] = call]

\* Call c returns r.
Returned(call, r) == [call EXCEPT !.pc = "done", !.result = r]

\* edit_file, lines 115-125, with the outcome lo of the load.
CLoaded(call, lo) ==
    IF lo.ok
    THEN [call EXCEPT !.pc = "exists", !.original = lo.data, !.content = lo.data]
    ELSE Returned(call, ResultErr(lo.err))

\* fs::read_to_string(path) of call c.
CLoad(c) ==
    /\ calls[c].pc = "load"
    /\ SetCall(c, CLoaded(calls[c],
                          LoadOutcome(Visible(dir, inodes, calls[c].path),
                                      calls[c].req)))
    /\ UNCHANGED <<dir, inodes, renames, files0>>
    /\ UNCHANGED <<seqVars, rpcVars>>

\* edit_file, lines 253-270, run the outcome of the loop.
AfterLoop(call, run) ==
    IF run.failed THEN Returned(call, ResultErr(run.err))
    ELSE IF MustPersist(call.req, Changed(run.content, call.original))
    THEN [call EXCEPT !.pc = "create", !.content = run.content,
                      !.applied = run.applied]
    ELSE [call EXCEPT !.pc = "done", !.content = run.content,
                      !.applied = run.applied,
                      !.result = EditFileResult(call.req,
                                     Changed(run.content, call.original),
                                     run.applied, run.content)]

\* edit_file, lines 127-258: path_obj.exists(), a second look at the
\* directory, then the loop on the call's own buffer.
CEdit(c) ==
    /\ calls[c].pc = "exists"
    /\ IF ~calls[c].req.create_if_missing /\ dir[calls[c].path] = 0
       THEN SetCall(c, Returned(calls[c],
                ResultErr(FileIoError("NotFound", "File not found", <<>>))))
       ELSE SetCall(c, AfterLoop(calls[c],
                RunEdits(calls[c].req.edits, calls[c].original, 0, 0)))
    /\ UNCHANGED <<dir, inodes, renames, files0>>
    /\ UNCHANGED <<seqVars, rpcVars>>

\* The call with its temp file open on inode ino; nothing is written for an
\* empty buffer.
Opened(call, ino) ==
    [call EXCEPT !.fd = ino, !.off = 0,
                 !.pc = IF call.content = <<>> THEN "rename" ELSE "write"]

\* fs::write, File::create(temp_path): truncate the file there, or make one.
CCreate(c) ==
    /\ calls[c].pc = "create"
    /\ IF dir[temp_path(calls[c].path)] # 0
       THEN /\ inodes' = [inodes EXCEPT ![dir[temp_path(calls[c].path)]] = <<>>]
            /\ dir' = dir
            /\ SetCall(c, Opened(calls[c], dir[temp_path(calls[c].path)]))
       ELSE /\ inodes' = Append(inodes, <<>>)
            /\ dir' = [dir EXCEPT ![temp_path(calls[c].path)] = Len(inodes) + 1]
            /\ SetCall(c, Opened(calls[c], Len(inodes) + 1))
    /\ UNCHANGED <<renames, files0>>
    /\ UNCHANGED <<seqVars, rpcVars>>

\* The call after n more bytes are written.
Wrote(call, n) ==
    [call EXCEPT !.off = call.off + n,
                 !.pc = IF call.off + n = Len(call.content) THEN "rename"
                        ELSE "write"]

\* fs::write, write_all: one write of the next n bytes of the buffer.
CWrite(c) ==
    /\ calls[c].pc = "write"
    /\ \E n \in 1..(Len(calls[c].content) - calls[c].off) :
          /\ inodes' = [inodes EXCEPT ![calls[c].fd] =
                           WriteAt(@, calls[c].off,
                                   Slice(calls[c].content, calls[c].off,
                                         calls[c].off + n))]
          /\ SetCall(c, Wrote(calls[c], n))
    /\ UNCHANGED <<dir, renames, files0>>
    /\ UNCHANGED <<seqVars, rpcVars>>

\* fs::rename(temp_path, path) succeeds and edit_file returns.
CRename(c) ==
    /\ calls[c].pc = "rename"
    /\ dir[temp_path(calls[c].path)] # 0
    /\ dir' = [dir EXCEPT ![calls[c].path] = dir[temp_path(calls[c].path)],
                          ![temp_path(calls[c].path)] = 0]
    /\ renames' = Append(renames, c)
    /\ SetCall(c, Returned(calls[c],
           EditFileResult(calls[c].req,
               Changed(calls[c].content, calls[c].original),
               calls[c].applied, calls[c].content)))
    /\ UNCHANGED <<inodes, files0>>
    /\ UNCHANGED <<seqVars, rpcVars>>

\* fs::rename finds no temp file: another call has renamed it away.
CRenameFails(c) ==
    /\ calls[c].pc = "rename"
    /\ dir[temp_path(calls[c].path)] = 0
    /\ SetCall(c, Returned(calls[c], ResultErr(RenameError("NotFound"))))
    /\ UNCHANGED <<dir, inodes, renames, files0>>
    /\ UNCHANGED <<seqVars, rpcVars>>

NextConc ==
    \E c \in Calls :
        \/ CLoad(c)
        \/ CEdit(c)
        \/ CCreate(c)
        \/ CWrite(c)
        \/ CRename(c)
        \/ CRenameFails(c)

SpecConc == InitConc /\ [][NextConc]_vars

(***************************************************************************)
(* The JSON-RPC server, src/main.rs and src/server.rs.  run_stdio_server    *)
(* reads one message at a time and handles it to the end before it reads    *)
(* the next.  The fields of a message are Options: None when the field is   *)
(* absent (or not a string, for jsonrpc, method, protocolVersion and name). *)
(* What a tool does to the files is left out: runs_ok says whether it       *)
(* succeeds.                                                                *)
(***************************************************************************)
Params(protocolVersion, name, arguments) ==
    [protocolVersion |-> protocolVersion, name |-> name, arguments |-> arguments]

Message(id, jsonrpc, method, params) ==
    [text |-> "json", id |-> id, jsonrpc |-> jsonrpc, method |-> method,
     params |-> params]

\* A line that is no message: "empty", or "garbage" that is not JSON.
Line(text) ==
    [text |-> text, id |-> OptNone, jsonrpc |-> OptNone, method |-> OptNone,
     params |-> Params(OptNone, OptNone, "null")]

\* The methods a message may name, each with the params it may carry.
MethodCalls ==
    {<<OptSome("initialize"), Params(v, OptNone, "null")>> :
        v \in {OptNone, OptSome("2024-11-05"), OptSome("1.0")}}
    \cup {<<OptSome("tools/call"), Params(OptNone, n, a)>> :
        n \in {OptNone, OptSome("fileio_edit_file"), OptSome("no_such_tool")},
        a \in {"object", "null"}}
    \cup {<<m, Params(OptNone, OptNone, "null")>> :
        m \in {OptNone, OptSome("initialized"), OptSome("notifications/initialized"),
               OptSome("tools/list"), OptSome("shutdown"), OptSome("ping")}}

Messages ==
    {Message(id, v, mc[1], mc[2]) :
        id \in {OptNone, OptSome(1)},
        v \in {OptNone, OptSome("2.0"), OptSome("1.0")},
        mc \in MethodCalls}

\* main.rs 339-355: an error response; id None is sent as null.
jsonrpc_error_response(id, code) == [ok |-> FALSE, id |-> id, code |-> code]

\* What a handler of McpServer yields: its Result and the flag it leaves.
Handled(ok, flag) == [ok |-> ok, initialized |-> flag]

\* Faulty variant: initialize marks the server initialized.
handle_initialize_SetsFlag(flag, protocol_version) ==
    IF protocol_version \notin {"2024-11-05", "2025-06-18", "2025-11-25"}
    THEN Handled(FALSE, flag)
    ELSE Handled(TRUE, TRUE)

\* server.rs 29-61: the flag is not touched.
handle_initialize(flag, protocol_version) ==
    IF protocol_version \notin {"2024-11-05", "2025-06-18", "2025-11-25"}
    THEN Handled(FALSE, flag)
    ELSE Handled(TRUE, flag)

\* server.rs 64-68.
handle_initialized(flag) == Handled(TRUE, TRUE)

\* server.rs 76-80.
handle_shutdown(flag) == Handled(TRUE, FALSE)

\* server.rs 71-73 and ToolRegistry::execute_tool: the arguments must be an
\* object and the name that of a tool; then the tool runs.
handle_tool_call(tool_name, arguments, runs_ok) ==
    IF arguments # "object" THEN FALSE
    ELSE IF tool_name # "fileio_edit_file" THEN FALSE
    ELSE runs_ok

\* What handling a message yields: the response if any, the flag, and
\* whether handle_tool_call was called.
Outcome(response, flag, called) ==
    [response |-> response, initialized |-> flag, executed |-> called]

\* main.rs 313-336: the response built from what the handler h yielded; a
\* success response carries the id and the result.
Built(id, h, called) ==
    Outcome(IF ~id.some THEN OptNone
            ELSE IF h.ok THEN OptSome([ok |-> TRUE, id |-> id, code |-> 0])
            ELSE OptSome(jsonrpc_error_response(id, -32000)),
            h.initialized, called)

\* An early return with an error response.
Rejected(id, code, flag) ==
    Outcome(OptSome(jsonrpc_error_response(id, code)), flag, FALSE)

\* main.rs 221-310: the match on the method, for a message with a method.
Dispatch(flag, message, runs_ok) ==
    CASE message.method.val = "initialize" ->
             Built(message.id,
                   handle_initialize(flag,
                       UnwrapOr(message.params.protocolVersion, "2024-11-05")),
                   FALSE)
      [] message.method.val \in {"initialized", "notifications/initialized"} ->
             Built(message.id, handle_initialized(flag), FALSE)
      [] message.method.val = "tools/list" ->
             IF ~flag THEN Rejected(message.id, -32000, flag)
             ELSE Built(message.id, Handled(TRUE, flag), FALSE)
      [] message.method.val = "tools/call" ->
             IF ~flag THEN Rejected(message.id, -32000, flag)
             ELSE IF ~message.params.name.some
             THEN Rejected(message.id, -32602, flag)
             ELSE Built(message.id,
                        Handled(handle_tool_call(message.params.name.val,
                                                 message.params.arguments, runs_ok),
                                flag),
                        TRUE)
      [] message.method.val = "shutdown" ->
             IF ~flag THEN Rejected(message.id, -32000, flag)
             ELSE Built(message.id, handle_shutdown(flag), FALSE)
      [] OTHER -> Rejected(message.id, -32601, flag)

\* main.rs 203-337.
handle_jsonrpc_message(flag, message, runs_ok) ==
    IF message.jsonrpc.some /\ message.jsonrpc.val # "2.0"
    THEN Rejected(message.id, -32600, flag)
    ELSE IF ~message.method.some THEN Rejected(message.id, -32601, flag)
    ELSE Dispatch(flag, message, runs_ok)

\* The message was taken: it got no error response.
Accepted(response) == ~response.some \/ response.val.ok

\* The last of server start, an initialized message taken and a shutdown
\* taken, after message got response.
Latest(last, message, response) ==
    IF ~(message.method.some /\ Accepted(response)) THEN last
    ELSE IF message.method.val \in {"initialized", "notifications/initialized"}
    THEN "initialized"
    ELSE IF message.method.val = "shutdown" THEN "shutdown"
    ELSE last

InitRpc ==
    /\ req = Line("empty")
    /\ result = OptNone
    /\ pc = "serve"
    /\ NoSession
    /\ disk = Missing
    /\ temp = Missing
    /\ original_content = <<>>
    /\ content = <<>>
    /\ applied = 0
    /\ idx = 0
    /\ before = <<>>
    /\ disk0 = Missing
    /\ target_writes = 0
    /\ NoCalls

\* One pass of the loop of run_stdio_server for the line message, handled
\* with outcome out; response is what is written to stdout.
ServeWith(message, out) ==
    /\ req' = message
    /\ result' = out.response
    /\ initialized' = out.initialized
    /\ executed' = out.executed
    /\ since' = [was |-> since.is, is |-> Latest(since.is, message, out.response)]

\* main.rs 98-100: an empty line is skipped.
SkipEmpty ==
    /\ pc = "serve"
    /\ ServeWith(Line("empty"), Outcome(OptNone, initialized, FALSE))
    /\ UNCHANGED <<disk, temp, pc, original_content, content, applied, idx,
                   before, disk0, target_writes>>
    /\ UNCHANGED concVars

\* main.rs 103-114: a line that is not JSON is answered with a parse error.
ParseError ==
    /\ pc = "serve"
    /\ ServeWith(Line("garbage"), Rejected(OptNone, -32700, initialized))
    /\ UNCHANGED <<disk, temp, pc, original_content, content, applied, idx,
                   before, disk0, target_writes>>
    /\ UNCHANGED concVars

\* main.rs 116-132: a message is handled and its response, if any, written.
HandleMessage ==
    /\ pc = "serve"
    /\ \E message \in Messages, runs_ok \in BOOLEAN :
           ServeWith(message, handle_jsonrpc_message(initialized, message, runs_ok))
    /\ UNCHANGED <<disk, temp, pc, original_content, content, applied, idx,
                   before, disk0, target_writes>>
    /\ UNCHANGED concVars

NextRpc ==
    \/ SkipEmpty
    \/ ParseError
    \/ HandleMessage

SpecRpc == InitRpc /\ [][NextRpc]_vars

(***************************************************************************)
(* Properties.  The expected values are computed from the request and the   *)
(* file the call found, by recursion on the edit list.                      *)
(***************************************************************************)
\* The content the call loads: the file's text, or nothing for a missing
\* file that may be created.
Loaded == LoadOutcome(disk0, req).data
LoadSucceeds == LoadOutcome(disk0, req).ok

\* The one element of a set that has one.
The(S) == CHOOSE x \in S : TRUE

\* The outcomes of the operations of edits applied, in order, to start: the
\* left fold of the per-operation transformation, as the sequence of
\* ApplyEdit outcomes (an operation that fails leaves the buffer).
RECURSIVE Outcomes(_, _, _)
Outcomes(edits, start, k) ==
    IF k > Len(edits) THEN <<>>
    ELSE The({<<out>> \o Outcomes(edits, out.content, k + 1) :
                 out \in {ApplyEdit(start, edits[k])}})

\* The buffer after the first k operations of the outcomes outs.
BufferOf(outs, start, k) == IF k = 0 THEN start ELSE outs[k].content

\* The buffer after the first k operations of edits applied to start.
BufferAfter(edits, start, k) == BufferOf(Outcomes(edits, start, 1), start, k)

\* The first outcome that is a failure, 0 if none is.
FirstFailed(outs) ==
    IF \E k \in 1..Len(outs) : outs[k].tag = "Failed"
    THEN SetMin({k \in 1..Len(outs) : outs[k].tag = "Failed"})
    ELSE 0

\* The first operation of edits that fails, 0 if none does.
FirstFailure(edits, start) == FirstFailed(Outcomes(edits, start, 1))

\* The error of operation k.
ErrorAt(edits, start, k) == Outcomes(edits, start, 1)[k].err

Reverse(seq) == [i \in 1..Len(seq) |-> seq[Len(seq) + 1 - i]]

ReturnedOk == pc = "done" /\ result.tag = "Ok"

\* Nothing has touched the file system.
Untouched == disk = disk0 /\ temp = Missing /\ target_writes = 0

\* C1: all-or-nothing.  If an operation of the edit list fails, the call
\* returns the error of that operation and the file on disk (and its temp
\* sibling) is what it was before the call, in every state of the call,
\* however many earlier operations had changed the buffer.  (The first
\* disjunct is the conclusion for a call that has not returned.)
C1_AllOrNothing ==
    \/ pc # "done" /\ Untouched
    \/ ~(LoadSucceeds /\ FirstFailure(req.edits, Loaded) > 0)
    \/ /\ Untouched
       /\ pc = "done" =>
              result = ResultErr(ErrorAt(req.edits, Loaded,
                                         FirstFailure(req.edits, Loaded)))

\* A call on an existing file, not a dry run, whose second operation failed
\* after the first had changed the buffer.
C1_Witness ==
    /\ pc = "done"
    /\ result.tag = "Err"
    /\ ~req.dry_run
    /\ disk0.kind = "text"
    /\ idx = 2
    /\ before # original_content
    /\ disk = disk0

\* C2: with dry_run = true the file is never created or modified, whatever
\* the edit list (also when the file is missing and create_if_missing is
\* true), and a successful call returns the would-be final buffer in content.
C2_DryRunNeverWrites ==
    req.dry_run =>
        /\ disk = disk0
        /\ temp = Missing
        /\ target_writes = 0
        /\ ReturnedOk =>
              result.content =
                  OptSome(BufferAfter(req.edits, Loaded, Len(req.edits)))

\* A dry run on a missing file with create_if_missing that would have
\* created it.
C2_Witness ==
    /\ ReturnedOk
    /\ req.dry_run
    /\ req.create_if_missing
    /\ disk0 = Missing
    /\ result.changed
    /\ result.content.val # <<>>
    /\ disk = Missing

\* C3: the operations are applied in request order, each against the buffer
\* all previous ones left: after idx operations the buffer is the left fold
\* of the first idx operations over the loaded content, and a successful
\* call has consumed the whole list.
C3_RequestOrder ==
    /\ (pc \in {"loop", "write_temp", "rename"} \/ ReturnedOk) =>
           content = BufferAfter(req.edits, Loaded, idx)
    /\ (pc \in {"write_temp", "rename"} \/ ReturnedOk) => idx = Len(req.edits)
    /\ (ReturnedOk /\ result.content.some) =>
           result.content.val = BufferAfter(req.edits, Loaded, Len(req.edits))
    /\ target_writes > 0 =>
           disk = TextFile(BufferAfter(req.edits, Loaded, Len(req.edits)))

\* Two operations that both changed the buffer, where the order matters:
\* the list taken backwards gives another buffer.
C3_Witness ==
    /\ ReturnedOk
    /\ Len(req.edits) = 2
    /\ result.applied_edits = 2
    /\ content # BufferAfter(Reverse(req.edits), Loaded, 2)

\* The operations of the outcomes outs that changed the buffer they were
\* applied to.
Changing(outs, start) ==
    {k \in 1..Len(outs) : BufferOf(outs, start, k) # BufferOf(outs, start, k - 1)}

ChangingOps(edits, start) == Changing(Outcomes(edits, start, 1), start)

\* C4: on success applied_edits is the number of operations whose buffer
\* after the operation differs from the buffer before it, and changed is
\* true exactly when the final buffer differs from the loaded content.
C4_AppliedAndChanged ==
    ReturnedOk =>
        /\ result.applied_edits = Cardinality(ChangingOps(req.edits, Loaded))
        /\ result.changed =
               (BufferAfter(req.edits, Loaded, Len(req.edits)) # Loaded)

\* A successful call of two operations of which exactly one changed the
\* buffer.
C4_Witness ==
    /\ ReturnedOk
    /\ Len(req.edits) = 2
    /\ result.applied_edits = 1
    /\ result.changed

\* C5: the target file is written if and only if the call succeeds with
\* changed = true and dry_run = false (once, with the final buffer; otherwise
\* the file is what it was); an empty edit list on an existing file gives
\* changed = false, applied_edits = 0 and no write.
C5_WritesIffChanged ==
    /\ pc = "done" =>
           (target_writes > 0 <=>
               (result.tag = "Ok" /\ result.changed /\ ~req.dry_run))
    /\ pc # "done" => target_writes = 0
    /\ target_writes = 0 => disk = disk0
    /\ target_writes > 0 => (target_writes = 1 /\ disk = TextFile(content))
    /\ (pc = "done" /\ req.edits = <<>> /\ disk0.kind = "text") =>
           /\ result.tag = "Ok"
           /\ ~result.changed
           /\ result.applied_edits = 0
           /\ target_writes = 0

\* A call that changed the content and wrote the file.
C5_Witness ==
    /\ ReturnedOk
    /\ result.changed
    /\ ~req.dry_run
    /\ target_writes = 1
    /\ disk # disk0
    /\ disk = TextFile(content)

(***************************************************************************)
(* Properties of one operation.  TheEdit is the operation the loop took     *)
(* last and `before` the buffer it was applied to.                          *)
(***************************************************************************)
TheEdit == req.edits[idx]

AnchorTaken == idx >= 1 /\ TheEdit.op \in AnchorKinds

\* The call did not fail in the operation taken last: it goes on, returned
\* Ok, or failed later in write_file.
OpPassed ==
    \/ pc \in {"loop", "write_temp", "rename"}
    \/ ReturnedOk
    \/ pc = "done" /\ idx = Len(req.edits) /\ content # original_content
          /\ result.err.kind \in {"WriteError", "PermissionDenied"}

\* The call failed with an error of kind k and touched nothing.
RejectedWith(k) ==
    pc = "done" /\ result.tag = "Err" /\ result.err.kind = k /\ Untouched

\* Does needle occur in h at offset p?
OccursAt(h, needle, p) ==
    /\ p + Len(needle) <= Len(h)
    /\ \A j \in 1..Len(needle) : h[p + j] = needle[j]

\* The least offset at or after q where needle occurs in h, -1 if none.
FirstAtOrAfter(h, needle, q) ==
    IF \E p \in q..Len(h) : OccursAt(h, needle, p)
    THEN SetMin({p \in q..Len(h) : OccursAt(h, needle, p)})
    ELSE -1

\* Where the k-th match of needle in h starts, counting left to right and
\* looking for each match from the end of the one before; -1 if there are
\* fewer than k.
RECURSIVE NthLiteralStart(_, _, _)
NthLiteralStart(h, needle, k) ==
    IF k = 1 THEN FirstAtOrAfter(h, needle, 0)
    ELSE The({IF prev = -1 THEN -1
              ELSE FirstAtOrAfter(h, needle, prev + Len(needle)) :
                 prev \in {NthLiteralStart(h, needle, k - 1)}})

\* The span find_nth_span is to return for a match starting at p (-1: none).
SpanAt(p, needle) == IF p = -1 THEN None ELSE Some(p, p + Len(needle))

C6_Examples ==
    /\ ApplyEdit(<<"x", " ", "x", " ", "x">>,
                 Replace(<<"x">>, <<"y">>, FALSE, 2, TRUE))
           = Applied(<<"x", " ", "y", " ", "x">>)
    /\ find_nth_span(<<"a", "a", "a">>, <<"a", "a">>, FALSE, 1) = Some(0, 2)
    /\ find_nth_span(<<"a", "a", "a">>, <<"a", "a">>, FALSE, 2) = None

\* C6: in literal mode find_nth_span returns the span of the occurrence-th
\* match counted left to right, each match searched from the end of the
\* previous one (non-overlapping), and None when there are fewer; Replace
\* puts its text in place of that span.  "x x x" with search "x",
\* occurrence 2 and text "y" gives "x y x"; "aa" matches "aaa" once.
C6_LiteralNthMatch ==
    /\ C6_Examples
    /\ (AnchorTaken /\ ~TheEdit.use_regex /\ TheEdit.occurrence >= 1
           /\ TheEdit.search # <<>>) =>
          /\ find_nth_span(before, TheEdit.search, FALSE, TheEdit.occurrence)
                = SpanAt(NthLiteralStart(before, TheEdit.search,
                                         TheEdit.occurrence), TheEdit.search)
          /\ (TheEdit.op = "replace"
                 /\ NthLiteralStart(before, TheEdit.search,
                                    TheEdit.occurrence) # -1) =>
                /\ OpPassed
                /\ \E p \in {NthLiteralStart(before, TheEdit.search,
                                             TheEdit.occurrence)} :
                      content = Slice(before, 0, p) \o TheEdit.text
                                \o Slice(before, p + Len(TheEdit.search),
                                         Len(before))

\* The second "aa" is looked for in "aaa" and is not there: the optional
\* anchor is skipped and the buffer stays as it was.
C6_Witness ==
    /\ AnchorTaken
    /\ TheEdit.op = "replace"
    /\ ~TheEdit.use_regex
    /\ ~TheEdit.require_match
    /\ TheEdit.occurrence = 2
    /\ TheEdit.search = <<"a", "a">>
    /\ before = <<"a", "a", "a">>
    /\ pc = "loop"
    /\ content = before

\* C7: an anchor operation with occurrence = 0 fails with
\* InvalidLineNumbers, for every buffer, every search string (empty or not
\* a regex included), either use_regex and either require_match.
C7_OccurrenceZero ==
    (AnchorTaken /\ TheEdit.occurrence = 0) =>
        RejectedWith("InvalidLineNumbers")

\* Occurrence 0 with an empty search string, in regex mode, not required.
C7_Witness ==
    /\ AnchorTaken
    /\ TheEdit.occurrence = 0
    /\ TheEdit.search = <<>>
    /\ TheEdit.use_regex
    /\ ~TheEdit.require_match
    /\ RejectedWith("InvalidLineNumbers")

\* An anchor operation with an empty search string and a valid occurrence.
EmptySearchTaken ==
    AnchorTaken /\ TheEdit.search = <<>> /\ TheEdit.occurrence >= 1

\* C8 as stated: an empty search string is rejected with InvalidPath in
\* literal mode only; in regex mode it is not rejected.
C8_AsStated ==
    EmptySearchTaken => (RejectedWith("InvalidPath") <=> ~TheEdit.use_regex)

\* C8, amended: an anchor operation with occurrence >= 1 and an empty search
\* string is rejected with InvalidPath in literal and in regex mode alike;
\* a regex that is not empty but can match the empty span, such as a*, is
\* accepted and its first match, empty or not, is the span operated on.
C8_EmptySearchRejected ==
    /\ EmptySearchTaken =>
          /\ RejectedWith("InvalidPath")
          /\ result.err = FileIoError("InvalidPath", "search must not be empty", <<>>)
    /\ (AnchorTaken /\ TheEdit.use_regex /\ TheEdit.search = <<"a", Star>>
           /\ TheEdit.occurrence = 1 /\ TheEdit.op = "insert_before") =>
          /\ OpPassed
          /\ content = TheEdit.text \o before

\* An empty search string in regex mode, rejected.
C8_Witness ==
    /\ EmptySearchTaken
    /\ TheEdit.use_regex
    /\ RejectedWith("InvalidPath")

\* Is part a contiguous part of whole?
Contains(whole, part) ==
    \E i \in 0..(Len(whole) - Len(part)) : Slice(whole, i, i + Len(part)) = part

\* edits without its k-th operation.
Without(edits, k) == SubSeq(edits, 1, k - 1) \o SubSeq(edits, k + 1, Len(edits))

\* The operation taken last is an anchor with no occurrence-th match.
NoMatchTaken ==
    /\ AnchorTaken
    /\ find_nth_span(before, TheEdit.search, TheEdit.use_regex,
                     TheEdit.occurrence) = None

\* Operation k of the request is an anchor that need not match and has no
\* occurrence-th match in the buffer the operations before it left.
SkippedAt(k) ==
    /\ req.edits[k].op \in AnchorKinds
    /\ ~req.edits[k].require_match
    /\ find_nth_span(BufferAfter(req.edits, Loaded, k - 1), req.edits[k].search,
                     req.edits[k].use_regex, req.edits[k].occurrence) = None

\* C9: an anchor operation with no occurrence-th match fails the request,
\* with an error whose message contains the search pattern, when
\* require_match is true; when it is false the operation leaves the buffer
\* as it is, adds nothing to applied_edits and raises nothing, and the rest
\* of the list is applied: the call ends as it does without that operation.
C9_MissingAnchor ==
    /\ (NoMatchTaken /\ TheEdit.require_match) =>
          /\ pc = "done"
          /\ result.tag = "Err"
          /\ Contains(result.err.msg, TheEdit.search)
          /\ Untouched
    /\ (NoMatchTaken /\ ~TheEdit.require_match) =>
          /\ OpPassed
          /\ content = before
          /\ applied = Cardinality(ChangingOps(SubSeq(req.edits, 1, idx - 1), Loaded))
    /\ ReturnedOk =>
          \A k \in 1..Len(req.edits) :
              SkippedAt(k) =>
                 /\ content = BufferAfter(Without(req.edits, k), Loaded,
                                          Len(req.edits) - 1)
                 /\ result.applied_edits =
                        Cardinality(ChangingOps(Without(req.edits, k), Loaded))

\* An anchor that need not match is missing, and the operation after it is
\* applied and changes the file.
C9_Witness ==
    /\ ReturnedOk
    /\ Len(req.edits) = 2
    /\ SkippedAt(1)
    /\ result.applied_edits = 1
    /\ result.changed
    /\ disk = TextFile(content)

\* The number of newlines among the first i characters of s.
NewlinesUpTo(s, i) == Cardinality({j \in 1..i : s[j] = NL})

\* The offset just after the k-th newline of s.
AfterNewline(s, k) == CHOOSE i \in 1..Len(s) : s[i] = NL /\ NewlinesUpTo(s, i) = k

\* The lines of s: one more than its newlines.
LineCount(s) == NewlinesUpTo(s, Len(s)) + 1

\* Where line k of s begins, and where it ends, its newline included.
LineBegin(s, k) == IF k = 1 THEN 0 ELSE AfterNewline(s, k - 1)
LineEnd(s, k) == IF k < LineCount(s) THEN AfterNewline(s, k) ELSE Len(s)

\* text, with a newline added if the removed span ends with one and text
\* does not.
KeepNewline(removed, text) ==
    IF removed # <<>> /\ removed[Len(removed)] = NL
          /\ (text = <<>> \/ text[Len(text)] # NL)
    THEN text \o <<NL>>
    ELSE text

C10_Examples ==
    /\ ApplyEdit(<<"a", NL, "b", NL, "c", NL>>, ReplaceLines(2, 2, <<"B">>))
           = Applied(<<"a", NL, "B", NL, "c", NL>>)
    /\ ApplyEdit(<<"a", NL, "b", NL, "c", NL>>, ReplaceLines(2, 2, <<>>))
           = Applied(<<"a", NL, NL, "c", NL>>)
    /\ ApplyEdit(<<"a", NL, "b">>, ReplaceLines(2, 2, <<"B">>))
           = Applied(<<"a", NL, "B">>)

\* C10: ReplaceLines(start, end, text) replaces exactly the span of lines
\* start..end; if the removed span ends with a newline and text does not
\* (text = "" included) one newline is appended to the replacement, else
\* text is used as it is.  "a\nb\nc\n" with ReplaceLines(2, 2, "B") gives
\* "a\nB\nc\n", and replacing a last line without a newline adds none.
C10_ReplaceLines ==
    /\ C10_Examples
    /\ (idx >= 1 /\ TheEdit.op = "replace_lines"
           /\ 1 <= TheEdit.start_line /\ TheEdit.start_line <= TheEdit.end_line
           /\ TheEdit.end_line <= LineCount(before)) =>
          /\ OpPassed
          /\ content =
                 Slice(before, 0, LineBegin(before, TheEdit.start_line))
                 \o KeepNewline(Slice(before, LineBegin(before, TheEdit.start_line),
                                      LineEnd(before, TheEdit.end_line)),
                                TheEdit.text)
                 \o Slice(before, LineEnd(before, TheEdit.end_line), Len(before))

\* A first line that ends with a newline is replaced by a text without one.
C10_Witness ==
    /\ ReturnedOk
    /\ idx = 1
    /\ TheEdit = ReplaceLines(1, 1, <<"b">>)
    /\ before = <<"a", NL, "b">>
    /\ content = <<"b", NL, "b">>
    /\ disk = TextFile(content)

\* Line k of s, its newline included.
LineText(s, k) == Slice(s, LineBegin(s, k), LineEnd(s, k))

\* t without its last character if that is a newline.
StripNewline(t) ==
    IF t # <<>> /\ t[Len(t)] = NL THEN Slice(t, 0, Len(t) - 1) ELSE t

\* How many of the operations before the one taken last changed the buffer.
AppliedBefore == Cardinality(ChangingOps(SubSeq(req.edits, 1, idx - 1), Loaded))

\* The operation taken last is ReplaceLines(N, N, text), N a line of the
\* buffer and text what line N holds, with or without its newline.
SameTextTaken ==
    /\ idx >= 1
    /\ TheEdit.op = "replace_lines"
    /\ TheEdit.start_line = TheEdit.end_line
    /\ 1 <= TheEdit.start_line
    /\ TheEdit.start_line <= LineCount(before)
    /\ TheEdit.text \in {LineText(before, TheEdit.start_line),
                         StripNewline(LineText(before, TheEdit.start_line))}

\* C11: ReplaceLines(N, N, text), with N a valid line and text the text line
\* N holds already, with or without its newline, leaves the buffer as it is
\* and adds nothing to applied_edits; if it is the only operation the call
\* returns changed = false and writes nothing.
C11_SameTextNoChange ==
    SameTextTaken =>
        /\ OpPassed
        /\ content = before
        /\ applied = AppliedBefore
        /\ Len(req.edits) = 1 =>
              /\ pc \in {"loop", "done"}
              /\ target_writes = 0
              /\ Untouched
              /\ pc = "done" =>
                    /\ ReturnedOk
                    /\ ~result.changed
                    /\ result.applied_edits = 0

\* Line 1 of "b\na" is replaced by "b", the text it holds less its newline.
C11_Witness ==
    /\ SameTextTaken
    /\ TheEdit = ReplaceLines(1, 1, <<"b">>)
    /\ before = <<"b", NL, "a">>
    /\ ReturnedOk
    /\ ~result.changed
    /\ result.applied_edits = 0
    /\ disk = TextFile(before)

\* The line range of the operation taken last is not one of the buffer.
BadRangeTaken ==
    /\ idx >= 1
    /\ TheEdit.op \in {"replace_lines", "delete_lines"}
    /\ \/ TheEdit.start_line = 0
       \/ TheEdit.end_line = 0
       \/ TheEdit.start_line > TheEdit.end_line
       \/ TheEdit.start_line > LineCount(before)
       \/ TheEdit.end_line > LineCount(before)

C12_Examples ==
    /\ ApplyEdit(<<"a", NL, "b", NL, "c">>, ReplaceLines(1, 999, <<"b">>)).tag = "Failed"
    /\ ApplyEdit(<<"a", NL, "b", NL, "c">>, ReplaceLines(1, 999, <<"b">>)).err.kind
           = "InvalidLineNumbers"
    /\ ApplyEdit(<<"a", NL, "b", NL, "c">>, DeleteLines(1, 999)).err.kind
           = "InvalidLineNumbers"

\* C12: ReplaceLines and DeleteLines fail with InvalidLineNumbers, clamping
\* nothing and leaving the buffer and the file as they are, when start_line
\* or end_line is 0, start_line > end_line, or either exceeds the effective
\* line count of the buffer (lines 1..999 of a 3-line file).
C12_LineBoundsRejected ==
    /\ C12_Examples
    /\ BadRangeTaken =>
          /\ RejectedWith("InvalidLineNumbers")
          /\ content = before

\* Lines 1..4 of a buffer of three lines: only the end is out of range.
C12_Witness ==
    /\ BadRangeTaken
    /\ TheEdit = DeleteLines(1, 4)
    /\ before = <<"a", NL, NL>>
    /\ RejectedWith("InvalidLineNumbers")
    /\ content = before

\* C13: InsertAtLine(line, text), count the effective line count of the
\* buffer: line = 0 and line > count + 1 fail with InvalidLineNumbers;
\* 1 <= line <= count inserts text at the offset where the line starts;
\* line = count + 1 appends text to the buffer, with no separator.
C13_InsertAtLine ==
    (idx >= 1 /\ TheEdit.op = "insert_at_line") =>
        /\ (TheEdit.line = 0 \/ TheEdit.line > LineCount(before) + 1) =>
              /\ RejectedWith("InvalidLineNumbers")
              /\ content = before
        /\ (1 <= TheEdit.line /\ TheEdit.line <= LineCount(before)) =>
              /\ OpPassed
              /\ content = Slice(before, 0, LineBegin(before, TheEdit.line))
                           \o TheEdit.text
                           \o Slice(before, LineBegin(before, TheEdit.line),
                                    Len(before))
        /\ TheEdit.line = LineCount(before) + 1 =>
              /\ OpPassed
              /\ content = before \o TheEdit.text

\* Line 2 of the one-line buffer "a": the text is appended.
C13_Witness ==
    /\ idx = 1
    /\ TheEdit = InsertAtLine(2, <<"b">>)
    /\ before = <<"a">>
    /\ content = <<"a", "b">>
    /\ ReturnedOk
    /\ disk = TextFile(content)

(***************************************************************************)
(* Properties of the load and of the result.                                *)
(***************************************************************************)
\* The call has not failed, in the load or in an operation.
Running == pc \in {"loop", "write_temp", "rename"} \/ ReturnedOk

\* C14: if the target file does not exist, then with create_if_missing the
\* edit list is applied to an empty buffer, and without it edit_file fails
\* with NotFound and creates no file.
C14_MissingFile ==
    (disk0 = Missing /\ pc # "load") =>
        IF req.create_if_missing
        THEN /\ original_content = <<>>
             /\ ~(pc = "done" /\ result.tag = "Err" /\ result.err.kind = "NotFound")
             /\ Running => content = BufferAfter(req.edits, <<>>, idx)
             /\ ReturnedOk =>
                   /\ idx = Len(req.edits)
                   /\ result.changed <=> content # <<>>
                   /\ disk = IF result.changed /\ ~req.dry_run
                             THEN TextFile(content) ELSE Missing
        ELSE /\ pc = "done"
             /\ result.tag = "Err"
             /\ result.err.kind = "NotFound"
             /\ idx = 0
             /\ disk = Missing
             /\ temp = Missing

\* A missing file that the call has created from an empty buffer.
C14_Witness ==
    /\ disk0 = Missing
    /\ req.create_if_missing
    /\ ~req.dry_run
    /\ ReturnedOk
    /\ result.applied_edits >= 1
    /\ content # <<>>
    /\ disk = TextFile(content)

\* The call failed when it loaded the file: no operation has been taken.
LoadFailed == pc = "done" /\ result.tag = "Err" /\ idx = 0

\* C15 as stated: a failure to load the file is reported as NotFound,
\* PermissionDenied or ReadError only, never as WriteError.
C15_AsStated ==
    LoadFailed => result.err.kind \in {"NotFound", "PermissionDenied", "ReadError"}

\* C16: on success the content field of the result is present, and is the
\* final buffer, exactly when return_content or dry_run is true; otherwise
\* it is absent.
C16_ContentField ==
    ReturnedOk =>
        /\ result.content.some <=> (req.return_content \/ req.dry_run)
        /\ result.content.some =>
              /\ result.content.val = content
              /\ content = BufferAfter(req.edits, Loaded, Len(req.edits))

\* A dry run that did not ask for the content and gets the changed buffer.
C16_Witness ==
    /\ ReturnedOk
    /\ req.dry_run
    /\ ~req.return_content
    /\ result.content = OptSome(content)
    /\ content # original_content

(***************************************************************************)
(* Properties of the spans the operations work on.                          *)
(***************************************************************************)
\* The buffer b with the anchor operation edit carried out on the span
\* [s, e).
SplicedAt(b, edit, s, e) ==
    CASE edit.op = "insert_after"  ->
             Slice(b, 0, e) \o edit.text \o Slice(b, e, Len(b))
      [] edit.op = "insert_before" ->
             Slice(b, 0, s) \o edit.text \o Slice(b, s, Len(b))
      [] edit.op = "replace"       ->
             Slice(b, 0, s) \o edit.text \o Slice(b, e, Len(b))
      [] edit.op = "delete"        ->
             Slice(b, 0, s) \o Slice(b, e, Len(b))

\* c begins with what b has before offset s and ends with what b has from
\* offset e on.
OutsideKept(b, c, s, e) ==
    /\ Len(c) >= s + (Len(b) - e)
    /\ Slice(c, 0, s) = Slice(b, 0, s)
    /\ Slice(c, Len(c) - (Len(b) - e), Len(c)) = Slice(b, e, Len(b))

\* The anchor operation edit, its search matched at span, took b to c.
SpliceOf(b, edit, span, c) ==
    span.tag = "Some" =>
        /\ OpPassed
        /\ c = SplicedAt(b, edit, span.start, span.end)
        /\ OutsideKept(b, c, span.start, span.end)

\* C22: for a matched span [s, e) of the buffer B, InsertAfter yields
\* B[0..e] + text + B[e..], InsertBefore B[0..s] + text + B[s..], Replace
\* B[0..s] + text + B[e..] and Delete B[0..s] + B[e..]; what lies outside
\* the span is never altered.
C22_AnchorSplice ==
    AnchorTaken =>
        SpliceOf(before, TheEdit,
                 find_nth_span(before, TheEdit.search, TheEdit.use_regex,
                               TheEdit.occurrence),
                 content)

\* Text inserted after the match "aa" at the end of "baa".
C22_Witness ==
    /\ AnchorTaken
    /\ TheEdit = InsertAfter(<<"a", "a">>, <<"b">>, FALSE, 1, TRUE)
    /\ before = <<"b", "a", "a">>
    /\ content = <<"b", "a", "a", "b">>
    /\ OpPassed

C23_Examples ==
    /\ effective_line_count(<<>>) = 1
    /\ effective_line_count(<<"a">>) = 1
    /\ effective_line_count(<<"a", NL>>) = 2
    /\ effective_line_count(<<"a", NL, "b", NL, "c", NL>>) = 4

\* One for the empty text, else one more than its newlines.
OnePlusNewlines(s) == IF s = <<>> THEN 1 ELSE 1 + NewlinesUpTo(s, Len(s))

\* C23: effective_line_count is 1 for the empty buffer and otherwise one
\* more than the number of newlines, so that a buffer that ends with a
\* newline has a last, empty line that the line operations address:
\* "a\nb\nc\n" has 4 lines.
C23_EffectiveLineCount ==
    /\ C23_Examples
    /\ effective_line_count(content) = OnePlusNewlines(content)
    /\ idx >= 1 =>
          /\ effective_line_count(before) = OnePlusNewlines(before)
          /\ (TheEdit.op = "delete_lines"
                 /\ TheEdit.start_line = OnePlusNewlines(before)
                 /\ TheEdit.end_line = OnePlusNewlines(before)) => OpPassed
          /\ (TheEdit.op = "delete_lines"
                 /\ TheEdit.end_line > OnePlusNewlines(before)) =>
                RejectedWith("InvalidLineNumbers")

\* The empty line 2 of "a\n" is deleted: accepted, and nothing to remove.
C23_Witness ==
    /\ idx >= 1
    /\ TheEdit = DeleteLines(2, 2)
    /\ before = <<"a", NL>>
    /\ effective_line_count(before) = 2
    /\ OpPassed
    /\ content = before

C24_Examples ==
    /\ line_range_offsets(<<>>, 1, 1, TRUE) = Some(0, 0)
    /\ line_range_offsets(<<"a", NL, "b", NL, "c", NL>>, 2, 2, TRUE) = Some(2, 4)
    /\ line_range_offsets(<<"a", NL, "b", NL, "c", NL>>, 1, 3, TRUE) = Some(0, 6)
    /\ line_range_offsets(<<"a", NL, "b", NL, "c", NL>>, 4, 4, TRUE) = Some(6, 6)
    /\ line_range_offsets(<<"a", NL, "b">>, 2, 2, TRUE) = Some(2, 3)

\* The operation taken last is ReplaceLines or DeleteLines with bounds
\* that are lines of the buffer.
ValidRangeTaken ==
    /\ idx >= 1
    /\ TheEdit.op \in {"replace_lines", "delete_lines"}
    /\ 1 <= TheEdit.start_line
    /\ TheEdit.start_line <= TheEdit.end_line
    /\ TheEdit.end_line <= LineCount(before)

\* The span [s, e) of b is made of whole lines: it starts where a line
\* starts and ends after a newline or at the end of b.
WholeLines(b, s, e) ==
    /\ s = 0 \/ b[s] = NL
    /\ e = Len(b) \/ (e > s /\ b[e] = NL)

\* span is the span of the lines start_line..end_line of b.
RangeOf(b, start_line, end_line, span) ==
    /\ span = Some(LineBegin(b, start_line), LineEnd(b, end_line))
    /\ WholeLines(b, span.start, span.end)

\* C24: for valid bounds line_range_offsets returns the offset where line
\* start begins and the offset where line end + 1 begins, the length of
\* the buffer when end is the last line, and (0, 0) for lines 1..1 of the
\* empty buffer: the span covers whole lines, the newline of line end
\* included when there is one.
C24_LineRangeOffsets ==
    /\ C24_Examples
    /\ ValidRangeTaken =>
          /\ RangeOf(before, TheEdit.start_line, TheEdit.end_line,
                     line_range_offsets(before, TheEdit.start_line,
                                        TheEdit.end_line, TRUE))
          /\ TheEdit.op = "delete_lines" =>
                content = Slice(before, 0, LineBegin(before, TheEdit.start_line))
                          \o Slice(before, LineEnd(before, TheEdit.end_line),
                                   Len(before))

\* Line 1 of "a\nb" is deleted with its newline.
C24_Witness ==
    /\ ValidRangeTaken
    /\ TheEdit = DeleteLines(1, 1)
    /\ before = <<"a", NL, "b">>
    /\ content = <<"b">>

\* What the operation edit resolves against the buffer b before it
\* mutates it: the span of find_nth_span, the offset of line_start_offset,
\* or the span of line_range_offsets.
ResolvedBy(b, edit) ==
    CASE edit.op \in AnchorKinds ->
             find_nth_span(b, edit.search, edit.use_regex, edit.occurrence)
      [] edit.op = "insert_at_line" -> line_start_offset(b, edit.line, TRUE)
      [] OTHER -> line_range_offsets(b, edit.start_line, edit.end_line, TRUE)

\* A span that was resolved lies within the buffer b.
InBuffer(span, b) ==
    span.tag = "Some" =>
        /\ 0 <= span.start
        /\ span.start <= span.end
        /\ span.end <= Len(b)

\* C25: every span or offset that find_nth_span, line_start_offset or
\* line_range_offsets resolves against the current buffer satisfies
\* 0 <= start <= end <= buffer.len() when it is used for the mutation,
\* after any operations before it: for the operation about to be taken
\* and for the one taken last.
C25_SpansInBuffer ==
    /\ (pc = "loop" /\ idx < Len(req.edits)) =>
          InBuffer(ResolvedBy(content, NextEdit(req.edits, idx)), content)
    /\ idx >= 1 => InBuffer(ResolvedBy(before, TheEdit), before)

\* The second operation of a list, resolved past offset 0 in a buffer that
\* the first operation has changed.
C25_Witness ==
    /\ idx = 2
    /\ OpPassed
    /\ before # original_content
    /\ content # before
    /\ ResolvedBy(before, TheEdit).tag = "Some"
    /\ ResolvedBy(before, TheEdit).start > 0
    /\ ResolvedBy(before, TheEdit).end > ResolvedBy(before, TheEdit).start
    /\ InBuffer(ResolvedBy(before, TheEdit), before)

\* The file was missing and the call may create it.
MayCreate == disk0 = Missing /\ req.create_if_missing

\* The edit list is empty or runs through and leaves the buffer empty.
LeavesEmpty ==
    /\ FirstFailure(req.edits, <<>>) = 0
    /\ BufferAfter(req.edits, <<>>, Len(req.edits)) = <<>>

C29_AppliedBounds ==
    ReturnedOk =>
        /\ 0 <= result.applied_edits
        /\ result.applied_edits <= Len(req.edits)
        /\ result.changed => result.applied_edits >= 1
        /\ ~result.changed => Untouched

\* A file left as it was by two operations that both changed the buffer.
C29_Witness ==
    /\ ReturnedOk
    /\ disk0.kind = "text"
    /\ ~req.dry_run
    /\ result.applied_edits = 2
    /\ ~result.changed
    /\ content = original_content
    /\ Untouched

\* The text ends with a newline and has no other.
OneLine(text) ==
    /\ text # <<>>
    /\ text[Len(text)] = NL
    /\ NewlinesUpTo(text, Len(text)) = 1

\* The call inserts a line at a line k of the buffer it loaded and then
\* deletes line k.
RoundTrip ==
    /\ pc # "load"
    /\ LoadSucceeds
    /\ Len(req.edits) = 2
    /\ req.edits[1].op = "insert_at_line"
    /\ OneLine(req.edits[1].text)
    /\ 1 <= req.edits[1].line
    /\ req.edits[1].line <= effective_line_count(original_content)
    /\ req.edits[2] = DeleteLines(req.edits[1].line, req.edits[1].line)

\* C30: for every buffer, every line k with 1 <= k <= effective line
\* count and every text t without a newline, the list [InsertAtLine(k,
\* t + newline), DeleteLines(k, k)] restores the buffer byte for byte: the
\* call returns changed = false and applied_edits = 2, and nothing is
\* written.
C30_InsertDeleteRoundTrip ==
    RoundTrip =>
        /\ pc \in {"loop", "done"}
        /\ Untouched
        /\ idx = 1 => content = Slice(original_content, 0,
                                      LineBegin(original_content, req.edits[1].line))
                                \o req.edits[1].text
                                \o Slice(original_content,
                                         LineBegin(original_content, req.edits[1].line),
                                         Len(original_content))
        /\ idx = 2 => content = original_content
        /\ pc = "done" =>
              /\ idx = 2
              /\ result.tag = "Ok"
              /\ ~result.changed
              /\ result.applied_edits = 2
              /\ result.content = OptSome(original_content)

\* A line put in at the last, empty line of "a\n" and taken out again.
C30_Witness ==
    /\ RoundTrip
    /\ ReturnedOk
    /\ original_content = <<"a", NL>>
    /\ req.edits[1] = InsertAtLine(2, <<"b", NL>>)
    /\ before = <<"a", NL, "b", NL>>
    /\ content = original_content
    /\ result.applied_edits = 2
    /\ ~result.changed
    /\ Untouched

(***************************************************************************)
(* Properties of read_lines.                                                *)
(***************************************************************************)
\* The lines of the text s: a newline at the end starts no line.
FileLines(s) == IF s = <<>> \/ s[Len(s)] = NL THEN LineCount(s) - 1 ELSE LineCount(s)

\* Lines from..FileLines(s) of s, without their newlines.
LinesFrom(s, from) ==
    [k \in 1..(FileLines(s) - from + 1) |-> StripNewline(LineText(s, from + k - 1))]

\* read_lines was asked for a window that starts at a line of the file.
StartsInFile ==
    /\ pc = "done"
    /\ disk.kind = "text"
    /\ req.start_line.some
    /\ 1 <= req.start_line.val
    /\ req.start_line.val <= FileLines(disk.data)

\* The window asked for ends past the last line of the file: by end_line,
\* or by line_count lines from start_line on.
EndsPastFile ==
    \/ req.end_line.some /\ req.end_line.val > FileLines(disk.data)
    \/ /\ ~req.end_line.some
       /\ req.line_count.some
       /\ req.start_line.val - 1 + req.line_count.val > FileLines(disk.data)

\* C20 as stated: for start_line within the file and end_line, or start +
\* line_count, beyond the last line, read_lines returns the lines from
\* start_line through the last one and no error.
C20_AsStated ==
    (StartsInFile /\ EndsPastFile) =>
        result = ReadOk(LinesFrom(disk.data, req.start_line.val))

\* What holds of C20: the end of the window is clamped whenever start +
\* line_count does not overflow usize.
C20_ClampsBelowOverflow ==
    (StartsInFile /\ EndsPastFile
        /\ (req.end_line.some
               \/ req.start_line.val - 1 + req.line_count.val <= UsizeMax)) =>
        result = ReadOk(LinesFrom(disk.data, req.start_line.val))

\* Lines 2.. of a three-line file, asked for up to a line past the end.
C20_Clamped ==
    /\ StartsInFile
    /\ disk.data = <<NL, NL, "a">>
    /\ req.start_line = OptSome(2)
    /\ req.end_line = OptSome(4)
    /\ result = ReadOk(<<<<>>, <<"a">>>>)

\* read_lines was asked for a window that starts past the last line of the
\* file.
StartsPastFile ==
    /\ pc = "done"
    /\ disk.kind = "text"
    /\ req.start_line.some
    /\ req.start_line.val > FileLines(disk.data)

C21_TwoPastRejected ==
    (StartsPastFile /\ req.start_line.val > FileLines(disk.data) + 1
        /\ (req.end_line.some \/ ~req.line_count.some
               \/ req.start_line.val - 1 + req.line_count.val <= UsizeMax)) =>
        /\ result.tag = "Err"
        /\ result.err.kind = "InvalidLineNumbers"

\* start_line one past the last line of a two-line file.
C21_OnePast ==
    /\ StartsPastFile
    /\ disk.data = <<"a", NL, "a">>
    /\ req.start_line = OptSome(3)
    /\ req.end_line = OptNone
    /\ req.line_count = OptNone
    /\ result = ReadOk(<<>>)

(***************************************************************************)
(* Properties of the JSON-RPC server.  req is the message handled last and  *)
(* result the response written for it, if any.                              *)
(***************************************************************************)
\* The message handled last is a notification: JSON without an id.
NotificationTaken == req.text = "json" /\ ~req.id.some

\* C26 as stated: a message without an id never produces a response,
\* whatever its method and whether handling it succeeds or fails.
C26_AsStated == NotificationTaken => ~result.some

\* The message handled last got as far as a handler's result: its version
\* was accepted, its method is one of the five, the server was initialized
\* if the method needs it, and a tools/call names its tool.
ReachedResult ==
    /\ req.text = "json"
    /\ ~req.jsonrpc.some \/ req.jsonrpc.val = "2.0"
    /\ req.method.some
    /\ \/ req.method.val \in {"initialize", "initialized", "notifications/initialized"}
       \/ /\ req.method.val \in {"tools/list", "tools/call", "shutdown"}
          /\ since.was = "initialized"
          /\ req.method.val = "tools/call" => req.params.name.some

\* What holds of C26: a notification gets no response exactly when it
\* reaches a handler's result; every notification rejected before that is
\* answered with an error whose id is null.
C26_SilentOnceHandled ==
    NotificationTaken =>
        /\ ReachedResult <=> ~result.some
        /\ result.some =>
              /\ ~result.val.ok
              /\ result.val.id = OptNone
              /\ result.val.code \in {-32600, -32601, -32602, -32000}

\* A notification with a method the server does not know is answered.
C26_Answered ==
    /\ req = Message(OptNone, OptSome("2.0"), OptSome("ping"),
                    Params(OptNone, OptNone, "null"))
    /\ result = OptSome(jsonrpc_error_response(OptNone, -32601))

\* The message handled last is a JSON-RPC 2.0 message with one of the
\* methods that need an initialized server.
GatedTaken ==
    /\ req.text = "json"
    /\ ~req.jsonrpc.some \/ req.jsonrpc.val = "2.0"
    /\ req.method.some
    /\ req.method.val \in {"tools/list", "tools/call", "shutdown"}

\* When the message handled last arrived, an initialized message had been
\* taken since the server started or since the last successful shutdown.
Ready == since.was = "initialized"

\* C27: a tools/call, tools/list or shutdown is carried out only if an
\* initialized (or notifications/initialized) message has been received
\* since the server started or since the last successful shutdown;
\* otherwise it is answered with error -32000 and no tool runs.  A
\* successful initialize alone does not make the server initialized, and a
\* successful shutdown makes it uninitialized again.
C27_InitializedGate ==
    /\ initialized <=> since.is = "initialized"
    /\ executed => (Ready /\ GatedTaken /\ req.method.val = "tools/call")
    /\ GatedTaken =>
          IF Ready
          THEN /\ req.method.val # "tools/call" => Accepted(result)
               /\ (req.method.val = "tools/call" /\ req.params.name.some) => executed
               /\ req.method.val = "shutdown" => ~initialized
          ELSE /\ result = OptSome(jsonrpc_error_response(req.id, -32000))
               /\ ~executed
               /\ ~initialized
    /\ (req.text = "json" /\ req.method = OptSome("initialize")) =>
          /\ since.is = since.was
          /\ initialized <=> Ready

\* A tools/call after a shutdown that followed the handshake is refused.
C27_Witness ==
    /\ GatedTaken
    /\ req.method.val = "tools/call"
    /\ req.params.name = OptSome("fileio_edit_file")
    /\ since.was = "shutdown"
    /\ result = OptSome(jsonrpc_error_response(req.id, -32000))
    /\ ~executed
    /\ ~initialized

(***************************************************************************)
(* Properties of concurrent calls.                                          *)
(***************************************************************************)
AllDone == \A c \in Calls : calls[c].pc = "done"

\* Both calls are on one path.
SamePath == calls[1].path = calls[2].path

\* The temp path of one call is the target path of another.
Colliding ==
    \E c \in Calls, d \in Calls : temp_path(calls[c].path) = calls[d].path

\* Call c has its final buffer: the loop is over and the buffer is to be,
\* or has been, written.
HasFinalBuffer(c) ==
    \/ calls[c].pc \in {"create", "write", "rename"}
    \/ calls[c].pc = "done" /\ calls[c].result.tag = "Ok"
    \/ calls[c].pc = "done" /\ calls[c].fd # 0

\* What the target path of call c may show: the file as it was, or the full
\* final buffer of a call on that path.
WholeContents(c) ==
    {files0[calls[c].path]}
    \cup {TextFile(calls[d].content) :
             d \in {e \in Calls : calls[e].path = calls[c].path /\ HasFinalBuffer(e)}}

\* C17 as stated: in every state of a persisting call, other calls on the
\* same path in progress or not, the target path shows the complete previous
\* content or the complete final buffer of some call, never a part or a mix.
C17_AsStated ==
    ~Colliding =>
        \A c \in Calls : Visible(dir, inodes, calls[c].path) \in WholeContents(c)

\* Both calls changed the content they read and went to write it.
BothPersist == \A c \in Calls : calls[c].fd # 0

\* C18 as stated: two calls on one path that both change the content both
\* return success, under every interleaving of their steps, and the file
\* ends as the complete final buffer of the call whose rename came last.
C18_AsStated ==
    (SamePath /\ AllDone /\ BothPersist) =>
        /\ \A c \in Calls : calls[c].result.tag = "Ok"
        /\ renames # <<>>
        /\ Visible(dir, inodes, calls[1].path)
              = TextFile(calls[renames[Len(renames)]].content)

\* What call c loads when it runs alone.
AloneLoad(c) == LoadOutcome(files0[calls[c].path], calls[c].req)

\* The outcomes of the operations of call c when it runs alone.
AloneOutcomes(c) == Outcomes(calls[c].req.edits, AloneLoad(c).data, 1)

\* The buffer call c ends with when it runs alone.
AloneBuffer(c) ==
    BufferOf(AloneOutcomes(c), AloneLoad(c).data, Len(calls[c].req.edits))

\* What call c returns when it runs alone.
AloneResult(c) ==
    IF ~AloneLoad(c).ok THEN ResultErr(AloneLoad(c).err)
    ELSE IF FirstFailed(AloneOutcomes(c)) > 0
    THEN ResultErr(AloneOutcomes(c)[FirstFailed(AloneOutcomes(c))].err)
    ELSE EditFileResult(calls[c].req, AloneBuffer(c) # AloneLoad(c).data,
             Cardinality(Changing(AloneOutcomes(c), AloneLoad(c).data)),
             AloneBuffer(c))

\* What the target path of call c holds after the call has run alone.
AloneFile(c) ==
    IF AloneResult(c).tag = "Ok" /\ AloneResult(c).changed /\ ~calls[c].req.dry_run
    THEN TextFile(AloneBuffer(c))
    ELSE files0[calls[c].path]

\* Every call has returned what it returns alone and left the file it
\* leaves alone.
AsIfAlone ==
    \A c \in Calls :
        /\ calls[c].result = AloneResult(c)
        /\ Visible(dir, inodes, calls[c].path) = AloneFile(c)

\* C19 as stated: concurrent calls on two distinct paths, whatever the
\* paths, do not interfere: each call's result and each file's final content
\* are those of the call run alone.
C19_AsStated == (~SamePath /\ AllDone) => AsIfAlone

\* What holds of C19: calls on two distinct paths, neither the other's with
\* ".tmp" appended, do not interfere.
C19_ApartFromTemp == (~SamePath /\ ~Colliding /\ AllDone) => AsIfAlone

\* Two calls on "f" and "g" that both wrote their file.
C19_BothWrote ==
    /\ AllDone
    /\ ~SamePath
    /\ ~Colliding
    /\ Len(renames) = 2
    /\ AsIfAlone

====
